---- MODULE Spec2Model ----
(***************************************************************************)
(* A model of the solar position library: the SPA pipeline `calculate`     *)
(* (spa.ts), the Julian Date conversion, the angle normalisation helpers   *)
(* (spa.ts, index.ts) and the Delta-T estimator (deltatpoly.ts).           *)
(*                                                                         *)
(* Numbers.  A JavaScript number is modelled as a signed decimal           *)
(* fixed-point value: a sign s and a magnitude m of NumLimbs limbs in      *)
(* base LimbBase, least significant first, of which the first FracLimbs    *)
(* are fractional.  With FracLimbs = 4 a value carries 16 decimal places.  *)
(* Sums, differences, remainders and products by integers are exact;       *)
(* products and quotients are truncated to the last place; the elementary  *)
(* functions of Math are evaluated by their series to the last place.      *)
(* julianDate and the normalize helpers are evaluated in binary64 with its *)
(* rounding (see binary64 below); calculate carries their results on in    *)
(* decimal.                                                                *)
(***************************************************************************)
EXTENDS Integers, Sequences, FiniteSets, TLC

(***************************************************************************)
(* State.                                                                  *)
(***************************************************************************)
VARIABLES
    tables,     \* the term tables of the module
    client,     \* what the caller is going to ask: inputs and number of calls
    pc,         \* for each caller, the position of its running calculate, or "idle"
    params,     \* for each caller, the Params of its running calculate
    loc,        \* for each caller, the local constants of its running calculate
    done,       \* the completed calls: Params, Result and term evaluations, oldest first
    jd,         \* a caller of julianDate
    nm,         \* a caller of a normalize helper
    dt,         \* a caller of the Delta-T estimator
    pr,         \* a caller of pressureAt
    wr          \* a caller of the convenience wrapper

vars == <<tables, client, pc, params, loc, done, jd, nm, dt, pr, wr>>

LimbBase == 100 * 100
FracLimbs == 4
NumLimbs == 2 * FracLimbs

Min(a, b) == IF a < b THEN a ELSE b
Max(a, b) == IF a < b THEN b ELSE a

(***************************************************************************)
(* Magnitudes: sequences of limbs, least significant first.                *)
(***************************************************************************)
Limb(a, i) == IF i >= 1 /\ i <= Len(a) THEN a[i] ELSE 0

\* e, with v evaluated before it: an argument is otherwise evaluated where it
\* is first used, however deep inside e that is.
Strict(v, e) == IF v = v THEN e ELSE v

\* The highest index i <= n with a[i] # 0, or 0.
TopNZ(a, n) ==
    IF \A i \in 1..n : a[i] = 0 THEN 0
    ELSE CHOOSE i \in 1..n : a[i] # 0 /\ \A k \in (i + 1)..n : a[k] = 0

\* Carrying through raw, whose entries are above -LimbBase^2, in four passes.
\* Bias: every limb borrows LimbBase from the limb above (the lowest borrows
\* nothing, the top borrows LimbBase^2 from outside), so that only carries
\* remain.
Bias(raw) ==
    [i \in 1..Len(raw) |->
        raw[i] + LimbBase * LimbBase - (IF i > 1 THEN LimbBase ELSE 0)] \o <<>>

\* Digits: the three digits of each entry go to the limb itself and the two
\* limbs above it.
Digits(a) ==
    [i \in 1..(Len(a) + 2) |->
        (Limb(a, i) % LimbBase) + ((Limb(a, i - 1) \div LimbBase) % LimbBase)
        + (Limb(a, i - 2) \div (LimbBase * LimbBase))] \o <<>>

\* Pass: each limb passes its carry up once; what stays is below LimbBase + 2.
Pass(e) ==
    [i \in 1..Len(e) |-> (e[i] % LimbBase) + (Limb(e, i - 1) \div LimbBase)] \o <<>>

\* Settle: a carry leaves limb i iff some limb j <= i holds LimbBase or more
\* and the limbs between hold LimbBase - 1.  The n limbs, and the carry out
\* of the top after the borrowed LimbBase^2 is given back, which is negative
\* iff the weighted sum of the entries is.
Settle(f, n) ==
    LET K(i) == \E j \in 1..i : f[j] >= LimbBase /\ \A k \in (j + 1)..i : f[k] = LimbBase - 1
    IN  [c |-> f[n + 1] + (IF K(n) THEN 1 ELSE 0) + LimbBase * f[n + 2] - LimbBase,
         m |-> [i \in 1..n |->
                  (f[i] + (IF i > 1 /\ K(i - 1) THEN 1 ELSE 0)) % LimbBase] \o <<>>]

Ripple(raw) ==
    IF Len(raw) = 0 THEN [c |-> 0, m |-> <<>>]
    ELSE Settle(Pass(Digits(Bias(raw))), Len(raw))

\* The limbs of the weighted sum of raw, which is not negative.
Carry(raw) ==
    LET Extend(r) ==
            IF r.c <= 0 THEN r.m
            ELSE IF r.c < LimbBase THEN Append(r.m, r.c)
            ELSE Append(Append(r.m, r.c % LimbBase), r.c \div LimbBase)
    IN  Extend(Ripple(raw))

Fit(a) == [i \in 1..NumLimbs |-> Limb(a, i)]

RECURSIVE ColSum(_, _, _, _, _)
ColSum(a, b, k, i, hi) ==
    IF i > hi THEN 0
    ELSE a[i] * b[k + 1 - i] + ColSum(a, b, k, i + 1, hi)

\* The limbs of the product of two magnitudes.
MMul(a, b) ==
    LET Columns(la, lb) ==
            IF la = 0 \/ lb = 0 THEN <<>>
            ELSE Carry([k \in 1..(la + lb - 1) |->
                           ColSum(a, b, k, Max(1, k + 1 - lb), Min(la, k))])
    IN  Columns(TopNZ(a, Len(a)), TopNZ(b, Len(b)))

RECURSIVE QFix(_, _, _)
\* Long division, one step: the largest q <= qhat with q * v <= r, and r - q * v.
QFix(r, v, qhat) ==
    LET Try(rem) ==
            IF rem.c < 0 THEN QFix(r, v, qhat - 1) ELSE [q |-> qhat, r |-> rem.m]
    IN  IF qhat = 0 THEN [q |-> 0, r |-> r]
        ELSE Try(Ripple([i \in 1..Len(r) |-> r[i] - qhat * Limb(v, i)]))

RECURSIVE LongDiv(_, _, _, _, _)
\* Divides u[1..j] (with the running remainder r, of lv + 1 limbs) by v, whose
\* top limb v[lv] is at least LimbBase \div 2; q collects the quotient's limbs,
\* most significant first.
LongDiv(u, v, j, r, q) ==
    LET lv == Len(v)
        Digit(r1) ==
            QFix(r1, v, Min(LimbBase - 1, (r1[lv + 1] * LimbBase + r1[lv]) \div v[lv]))
        Emit(st, next) ==
            IF Len(next) > Len(u) THEN next ELSE LongDiv(u, v, j - 1, st.r, next)
        Step(st) == Emit(st, Append(q, st.q))
    IN  IF j = 0 THEN q ELSE Step(Digit(<<u[j]>> \o SubSeq(r, 1, lv)))

Reverse(q) == [i \in 1..Len(q) |-> q[Len(q) + 1 - i]]

\* The limbs of the integer quotient of two magnitudes, b # 0.
MDiv(a, b) ==
    LET lb == TopNZ(b, Len(b))
        Quotient(u, v, lu) ==
            IF lu < Len(v) THEN <<>>
            ELSE Reverse(LongDiv(u, v, lu - lb + 1,
                                 SubSeq(u, lu - lb + 2, lu) \o <<0, 0>>, <<>>))
        Scaled(u, v) == Quotient(u, v, TopNZ(u, Len(u)))
        Scale(d) == Scaled(Carry([k \in 1..Len(a) |-> a[k] * d]),
                           Carry([k \in 1..lb |-> b[k] * d]))
    IN  Scale(LimbBase \div (b[lb] + 1))

RECURSIVE ShortDiv(_, _, _, _, _)
\* The limbs of the integer quotient of a[1..i] (after the remainder r) by d,
\* 0 < d <= 200000; q collects them, most significant first.
ShortDiv(a, d, i, r, q) ==
    IF i = 0 THEN q
    ELSE LET cur == r * LimbBase + a[i]
             next == Append(q, cur \div d)
         IN  IF Len(next) > Len(a) THEN next ELSE ShortDiv(a, d, i - 1, cur % d, next)

(***************************************************************************)
(* Numbers.                                                                *)
(***************************************************************************)
ZeroM == [i \in 1..NumLimbs |-> 0]
Zero == [s |-> 1, m |-> ZeroM]
\* NaN stands for every non-finite value (NaN, +Infinity, -Infinity).
NaN == [s |-> 0, m |-> ZeroM]
IsNaN(x) == x.s = 0
IsZero(x) == x.s # 0 /\ x.m = ZeroM
Mk(s, m) == IF m = ZeroM THEN Zero ELSE [s |-> s, m |-> m]

FromInt(n) ==
    LET a == IF n < 0 THEN -n ELSE n
    IN  Mk(IF n < 0 THEN -1 ELSE 1,
           [i \in 1..NumLimbs |->
               IF i = FracLimbs + 1 THEN a % LimbBase
               ELSE IF i = FracLimbs + 2 THEN (a \div LimbBase) % LimbBase
               ELSE IF i = FracLimbs + 3 THEN a \div (LimbBase * LimbBase)
               ELSE 0])
One == FromInt(1)

Neg(x) == IF IsZero(x) THEN x ELSE [s |-> -x.s, m |-> x.m]
Abs(x) == IF IsNaN(x) THEN x ELSE [s |-> 1, m |-> x.m]

Add(x, y) ==
    LET Signed(raw, s) ==
            [s |-> s, m |-> Fit(Carry([i \in 1..NumLimbs |-> s * raw[i]]))]
        Top(raw, t) ==
            IF t = 0 THEN Zero ELSE Signed(raw, IF raw[t] > 0 THEN 1 ELSE -1)
        Sum(raw) == Top(raw, TopNZ(raw, NumLimbs))
    IN  IF IsNaN(x) \/ IsNaN(y) THEN NaN
        ELSE Sum([i \in 1..NumLimbs |-> x.s * x.m[i] + y.s * y.m[i]])

Sub(x, y) == Add(x, Neg(y))

Less(x, y) == Sub(x, y).s = -1

Mul(x, y) ==
    IF IsNaN(x) \/ IsNaN(y) THEN NaN
    ELSE LET p == MMul(x.m, y.m)
         IN  Mk(x.s * y.s, [i \in 1..NumLimbs |-> Limb(p, i + FracLimbs)])

Div(x, y) ==
    IF IsNaN(x) \/ IsNaN(y) THEN NaN
    ELSE IF IsZero(y) THEN NaN
    ELSE LET u == [i \in 1..(NumLimbs + FracLimbs) |-> Limb(x.m, i - FracLimbs)]
         IN  Mk(x.s * y.s, Fit(MDiv(u, y.m)))

\* x / d for an integer 0 < d (the divisors of the code that are whole numbers).
DivInt(x, d) ==
    IF IsNaN(x) THEN NaN
    ELSE IF d > 200000 THEN Div(x, FromInt(d))
    ELSE Mk(x.s, Reverse(ShortDiv(x.m, d, NumLimbs, 0, <<>>)))
MulInt(x, k) == Mul(x, FromInt(k))

\* The % of JavaScript: the remainder has the sign of the dividend.
Fmod(x, y) ==
    LET Rem(qy) == Mk(x.s, Fit(Carry([i \in 1..NumLimbs |-> x.m[i] - Limb(qy, i)])))
        Quot(q) == IF q = <<>> THEN x ELSE Rem(MMul(q, y.m))
    IN  IF IsNaN(x) \/ IsNaN(y) \/ IsZero(y) THEN NaN
        ELSE Quot(MDiv(x.m, y.m))

RECURSIVE Pow(_, _)
\* x ** n for a whole n >= 0.
Pow(x, n) == IF n = 0 THEN One ELSE Mul(x, Pow(x, n - 1))

RECURSIVE Pow10(_)
Pow10(e) == IF e = 0 THEN 1 ELSE 10 * Pow10(e - 1)

\* The decimal literal m * 10^-e, -8 <= e, |m| < 2^31: the digits of
\* m * 10^k, where k < 4 makes e + k a multiple of 4, placed (e + k) / 4 limbs
\* below the units.
Dec(m, e) ==
    LET Place(lo, hi, sh) ==
            Mk(IF m < 0 THEN -1 ELSE 1,
               [i \in 1..NumLimbs |->
                   IF i = FracLimbs + 1 - sh THEN lo % LimbBase
                   ELSE IF i = FracLimbs + 2 - sh THEN hi % LimbBase
                   ELSE IF i = FracLimbs + 3 - sh THEN (hi \div LimbBase) % LimbBase
                   ELSE IF i = FracLimbs + 4 - sh THEN hi \div (LimbBase * LimbBase)
                   ELSE 0])
        Split(lo, hi, sh) == Place(lo, hi + lo \div LimbBase, sh)
        Scaled(a, p, sh) == Split((a % LimbBase) * p, (a \div LimbBase) * p, sh)
        Shift(k) == Scaled(IF m < 0 THEN -m ELSE m, Pow10(k), (e + k) \div 4)
    IN  Shift((4 - ((e + 8) % 4)) % 4)

\* The literal (m1 * 10^8 + m0) * 10^-e.
Dec2(m1, m0, e) == Add(Dec(m1, e - 8), Dec(m0, e))

(***************************************************************************)
(* binary64.  Where the code's result depends on the rounding of IEEE      *)
(* doubles (julianDate, the normalize helpers), a number is a sign s and   *)
(* a whole magnitude m counting units of 2^-FracBits, and every operation  *)
(* rounds its exact result to SigBits significant bits, ties to even, as   *)
(* the hardware does.  Every double of magnitude 2^(SigBits-1-FracBits)    *)
(* or more is such a number.                                               *)
(***************************************************************************)
FracBits == 80
SigBits == 52 + 1
BinLimbs == (FracBits + 64) \div 13 + 1

RECURSIVE Pow2Small(_)
Pow2Small(k) == IF k = 0 THEN 1 ELSE 2 * Pow2Small(k - 1)

RECURSIVE Pow2(_)
\* The limbs of 2^k.
Pow2(k) == IF k < 13 THEN <<Pow2Small(k)>> ELSE MMul(Pow2(k - 13), <<Pow2Small(13)>>)

Pow2Table == [k \in 1..(2 * FracBits + 64) |-> Pow2(k - 1)] \o <<>>
Two(k) == Pow2Table[k + 1]
Unit == Two(FracBits)

\* The limbs of 10^e and of a whole number 0 <= n < 2^31.
Pow10Limbs(e) == [i \in 1..(e \div 4 + 1) |-> IF i = e \div 4 + 1 THEN Pow10(e % 4) ELSE 0]
IntLimbs(n) == <<n % LimbBase, (n \div LimbBase) % LimbBase, n \div (LimbBase * LimbBase)>>

\* -1, 0 or 1 as a is below, equal to or above b.
MCmp(a, b) ==
    LET Sign(r) == IF r.c < 0 THEN -1
                   ELSE IF \A i \in 1..Len(r.m) : r.m[i] = 0 THEN 0 ELSE 1
    IN  Sign(Ripple([i \in 1..Max(Len(a), Len(b)) |-> Limb(a, i) - Limb(b, i)]))

MAdd(a, b) == Carry([i \in 1..Max(Len(a), Len(b)) |-> Limb(a, i) + Limb(b, i)])
\* a - b for a >= b.
MSub(a, b) == Carry([i \in 1..Len(a) |-> a[i] - Limb(b, i)])

\* The number of bits of a: the j with 2^(j-1) <= a < 2^j, which lies within
\* 15 of the bits of LimbBase^(top - 1).
BitLen(a) ==
    LET Window(lo) ==
            CHOOSE j \in lo..(lo + 15) :
                MCmp(a, Two(j)) < 0 /\ (j = 0 \/ MCmp(a, Two(j - 1)) >= 0)
        Top(t) == IF t = 0 THEN 0 ELSE Window(((t - 1) * 13287) \div 1000)
    IN  Top(TopNZ(a, Len(a)))

\* The whole number of units 2^k nearest to a / b (ties to the even one),
\* in units of 1, where k >= 0 leaves it SigBits bits.
Round(a, b) ==
    LET Half(q, c, k) ==
            IF c > 0 \/ (c = 0 /\ Limb(q, 1) % 2 = 1) THEN MMul(MAdd(q, <<1>>), Two(k))
            ELSE MMul(q, Two(k))
        Rest(q, d, k) == Strict(q, Half(q, MCmp(MMul(MSub(a, MMul(q, d)), <<2>>), d), k))
        Cut(d, k) == Strict(d, Rest(MDiv(a, d), d, k))
        Bits(k) == Strict(k, Cut(MMul(b, Two(k)), k))
    IN  Strict(a, Strict(b, Bits(Max(0, BitLen(MDiv(a, b)) - SigBits))))

BinZeroM == [i \in 1..BinLimbs |-> 0]
BinMk(s, a) ==
    LET Fitted(m) == IF m = BinZeroM THEN [s |-> IF s = 0 THEN 0 ELSE 1, m |-> m]
                     ELSE [s |-> s, m |-> m]
    IN  Fitted([i \in 1..BinLimbs |-> Limb(a, i)])

\* A whole number |n| < 2^31, and the decimal literal m * 10^-e, as doubles.
BinInt(n) == BinMk(IF n < 0 THEN -1 ELSE 1, MMul(IntLimbs(IF n < 0 THEN -n ELSE n), Unit))
BinLit(m, e) ==
    BinMk(IF m < 0 THEN -1 ELSE 1,
          Round(MMul(IntLimbs(IF m < 0 THEN -m ELSE m), Unit), Pow10Limbs(e)))

\* x + y, x * y, x / y and x % y of JavaScript; s = 0 is NaN.
BinAdd(x, y) ==
    LET Signed(raw, s) == BinMk(s, Round(Carry([i \in 1..BinLimbs |-> s * raw[i]]), <<1>>))
        Top(raw, t) ==
            IF t = 0 THEN BinMk(1, <<>>) ELSE Signed(raw, IF raw[t] > 0 THEN 1 ELSE -1)
        Sum(raw) == Top(raw, TopNZ(raw, BinLimbs))
    IN  IF x.s = 0 \/ y.s = 0 THEN BinMk(0, <<>>)
        ELSE Sum([i \in 1..BinLimbs |-> x.s * x.m[i] + y.s * y.m[i]])

BinMul(x, y) ==
    IF x.s = 0 \/ y.s = 0 THEN BinMk(0, <<>>)
    ELSE BinMk(x.s * y.s, Round(MMul(x.m, y.m), Unit))

BinDiv(x, y) ==
    IF x.s = 0 \/ y.s = 0 \/ y.m = BinZeroM THEN BinMk(0, <<>>)
    ELSE BinMk(x.s * y.s, Round(MMul(x.m, Unit), y.m))

BinMod(x, y) ==
    LET Rem(q) == BinMk(x.s, MSub(x.m, MMul(q, y.m)))
    IN  IF x.s = 0 \/ y.s = 0 \/ y.m = BinZeroM THEN BinMk(0, <<>>)
        ELSE Rem(MDiv(x.m, y.m))

\* Math.PI = 884279719003555 * 2^-48.
BinPI == BinMk(1, MMul(<<3555, 1900, 2797, 884>>, Two(FracBits - 48)))

\* A double as a number of FracLimbs * 4 decimals (cut off), and the double
\* nearest to such a number.
BinToDec(x) ==
    IF x.s = 0 THEN NaN
    ELSE Mk(x.s, Fit(MDiv(MMul(x.m, Pow10Limbs(4 * FracLimbs)), Unit)))
DecToBin(x) ==
    IF IsNaN(x) THEN BinMk(0, <<>>)
    ELSE BinMk(x.s, Round(MMul(x.m, Unit), Pow10Limbs(4 * FracLimbs)))

(***************************************************************************)
(* Math.PI and the elementary functions of Math.                           *)
(***************************************************************************)
\* The number with the whole part d[1] and the decimals d[2], d[3], ...
FromDigits(d) ==
    [s |-> 1,
     m |-> [i \in 1..NumLimbs |-> IF i <= FracLimbs + 1 THEN d[FracLimbs + 2 - i] ELSE 0]]

PI == FromDigits(<<3, 1415, 9265, 3589, 7932, 3846, 2643, 3832, 7950>>)
TwoPIDec == MulInt(PI, 2)
HalfPI == FromDigits(<<1, 5707, 9632, 6794, 8966, 1923, 1321, 6916, 3975>>)
QuarterPI == FromDigits(<<0, 7853, 9816, 3397, 4483, 961, 5660, 8458, 1987>>)

RECURSIVE Series(_, _, _, _, _)
\* sum + term * (1 - x2/(k(k+1)) * (1 - x2/((k+2)(k+3)) * ...)): the Taylor
\* series of sin (from k = 2) and cos (from k = 1), to the last place.
Series(x2, term, k, sum, sgn) ==
    LET Next(t, next) == IF IsNaN(next) THEN NaN ELSE Series(x2, t, k + 2, next, -sgn)
        Term(t) == Next(t, Add(sum, IF sgn < 0 THEN Neg(t) ELSE t))
    IN  IF IsZero(term) THEN sum
        ELSE Term(DivInt(Mul(term, x2), k * (k + 1)))

RECURSIVE SinCos(_, _)
\* sin r (if sine) or cos r for r in [0, 2 PI), folded to [0, PI/4] for the series.
SinCos(r, sine) ==
    LET Taylor(x, s) ==
            Series(Mul(x, x), IF s THEN x ELSE One, IF s THEN 2 ELSE 1,
                   IF s THEN x ELSE One, -1)
        Octant(swap) == Taylor(IF swap THEN Sub(HalfPI, r) ELSE r, sine # swap)
    IN  IF Less(PI, r) THEN Neg(SinCos(Sub(r, PI), sine))
        ELSE IF Less(HalfPI, r)
        THEN (IF sine THEN SinCos(Sub(PI, r), sine) ELSE Neg(SinCos(Sub(PI, r), sine)))
        ELSE Octant(Less(QuarterPI, r))

\* Math.cos
Cos(x) == IF IsNaN(x) THEN NaN ELSE SinCos(Fmod(Abs(x), TwoPIDec), FALSE)

\* Math.sin
Sin(x) ==
    LET Signed(v) == IF x.s < 0 THEN Neg(v) ELSE v
    IN  IF IsNaN(x) THEN NaN ELSE Signed(SinCos(Fmod(Abs(x), TwoPIDec), TRUE))

\* Math.tan
Tan(x) == Div(Sin(x), Cos(x))

RECURSIVE AtanSeries(_, _, _, _, _)
\* u - u^3/3 + u^5/5 - ..., to the last place.
AtanSeries(u2, pw, k, sum, sgn) ==
    LET Next(p, next) == IF IsNaN(next) THEN NaN ELSE AtanSeries(u2, p, k + 2, next, -sgn)
        Term(p, t) == Next(p, Add(sum, IF sgn < 0 THEN Neg(t) ELSE t))
        Power(p) == Term(p, DivInt(p, k))
    IN  IF IsZero(pw) THEN sum ELSE Power(Mul(pw, u2))

\* atan(t) for 0 <= t <= 1: the series, after atan(t) = PI/4 + atan((t - 1)/(t + 1))
\* when t is above tan(PI/8).
AtanUnit(t) ==
    LET Arc(u) == AtanSeries(Mul(u, u), u, 3, u, -1)
        Fold(big) ==
            Add(IF big THEN QuarterPI ELSE Zero,
                Arc(IF big THEN Div(Sub(t, One), Add(t, One)) ELSE t))
    IN  Fold(Less(Dec(4142, 4), t))

\* Math.atan2, in (-PI, PI].
Atan2(y, x) ==
    LET Signed(q) == IF y.s < 0 THEN Neg(q) ELSE q
        Quadrant(th) == Signed(IF x.s < 0 THEN Sub(PI, th) ELSE th)
        Angle(swap, at) == Quadrant(IF swap THEN Sub(HalfPI, at) ELSE at)
        Ratio(swap) ==
            Angle(swap, AtanUnit(Div(IF swap THEN Abs(x) ELSE Abs(y),
                                     IF swap THEN Abs(y) ELSE Abs(x))))
    IN  IF IsNaN(y) \/ IsNaN(x) THEN NaN
        ELSE IF IsZero(y) THEN (IF x.s < 0 THEN PI ELSE Zero)
        ELSE Ratio(Less(Abs(x), Abs(y)))

\* Math.atan
Atan(x) == Atan2(x, One)

RECURSIVE SqrtIter(_, _)
SqrtIter(w, s) ==
    LET Better(t) == IF ~Less(t, s) THEN s ELSE SqrtIter(w, t)
    IN  Better(DivInt(Add(s, Div(w, s)), 2))

Sqrt(w) == IF IsZero(w) THEN Zero ELSE SqrtIter(w, Add(w, One))

\* Math.asin: NaN outside [-1, 1].
Asin(x) ==
    IF IsNaN(x) \/ Less(One, Abs(x)) THEN NaN
    ELSE Atan2(x, Sqrt(Sub(One, Mul(x, x))))

(***************************************************************************)
(* spa.ts: the Term Tables, literal by literal.  Dec(m, e) is m * 10^-e.   *)
(***************************************************************************)
L_TERMS ==
  <<
    <<
      [A |-> Dec(175347046, 0), B |-> Dec(0, 0), C |-> Dec(0, 0)],
      [A |-> Dec(3341656, 0), B |-> Dec(46692568, 7), C |-> Dec(628307585, 5)],
      [A |-> Dec(34894, 0), B |-> Dec(46261, 4), C |-> Dec(125661517, 4)],
      [A |-> Dec(3497, 0), B |-> Dec(27441, 4), C |-> Dec(57533849, 4)],
      [A |-> Dec(3418, 0), B |-> Dec(28289, 4), C |-> Dec(35231, 4)],
      [A |-> Dec(3136, 0), B |-> Dec(36277, 4), C |-> Dec(777137715, 4)],
      [A |-> Dec(2676, 0), B |-> Dec(44181, 4), C |-> Dec(78604194, 4)],
      [A |-> Dec(2343, 0), B |-> Dec(61352, 4), C |-> Dec(39302097, 4)],
      [A |-> Dec(1324, 0), B |-> Dec(7425, 4), C |-> Dec(115067698, 4)],
      [A |-> Dec(1273, 0), B |-> Dec(20371, 4), C |-> Dec(529691, 3)],
      [A |-> Dec(1199, 0), B |-> Dec(11096, 4), C |-> Dec(15773435, 4)],
      [A |-> Dec(990, 0), B |-> Dec(5233, 3), C |-> Dec(5884927, 3)],
      [A |-> Dec(902, 0), B |-> Dec(2045, 3), C |-> Dec(26298, 3)],
      [A |-> Dec(857, 0), B |-> Dec(3508, 3), C |-> Dec(398149, 3)],
      [A |-> Dec(780, 0), B |-> Dec(1179, 3), C |-> Dec(5223694, 3)],
      [A |-> Dec(753, 0), B |-> Dec(2533, 3), C |-> Dec(5507553, 3)],
      [A |-> Dec(505, 0), B |-> Dec(4583, 3), C |-> Dec(18849228, 3)],
      [A |-> Dec(492, 0), B |-> Dec(4205, 3), C |-> Dec(775523, 3)],
      [A |-> Dec(357, 0), B |-> Dec(292, 2), C |-> Dec(67, 3)],
      [A |-> Dec(317, 0), B |-> Dec(5849, 3), C |-> Dec(11790629, 3)],
      [A |-> Dec(284, 0), B |-> Dec(1899, 3), C |-> Dec(796298, 3)],
      [A |-> Dec(271, 0), B |-> Dec(315, 3), C |-> Dec(10977079, 3)],
      [A |-> Dec(243, 0), B |-> Dec(345, 3), C |-> Dec(5486778, 3)],
      [A |-> Dec(206, 0), B |-> Dec(4806, 3), C |-> Dec(2544314, 3)],
      [A |-> Dec(205, 0), B |-> Dec(1869, 3), C |-> Dec(5573143, 3)],
      [A |-> Dec(202, 0), B |-> Dec(2458, 3), C |-> Dec(6069777, 3)],
      [A |-> Dec(156, 0), B |-> Dec(833, 3), C |-> Dec(213299, 3)],
      [A |-> Dec(132, 0), B |-> Dec(3411, 3), C |-> Dec(2942463, 3)],
      [A |-> Dec(126, 0), B |-> Dec(1083, 3), C |-> Dec(20775, 3)],
      [A |-> Dec(115, 0), B |-> Dec(645, 3), C |-> Dec(98, 2)],
      [A |-> Dec(103, 0), B |-> Dec(636, 3), C |-> Dec(4694003, 3)],
      [A |-> Dec(102, 0), B |-> Dec(976, 3), C |-> Dec(15720839, 3)],
      [A |-> Dec(102, 0), B |-> Dec(4267, 3), C |-> Dec(7114, 3)],
      [A |-> Dec(99, 0), B |-> Dec(621, 2), C |-> Dec(214617, 2)],
      [A |-> Dec(98, 0), B |-> Dec(68, 2), C |-> Dec(15542, 2)],
      [A |-> Dec(86, 0), B |-> Dec(598, 2), C |-> Dec(16100069, 2)],
      [A |-> Dec(85, 0), B |-> Dec(13, 1), C |-> Dec(627596, 2)],
      [A |-> Dec(85, 0), B |-> Dec(367, 2), C |-> Dec(714307, 1)],
      [A |-> Dec(80, 0), B |-> Dec(181, 2), C |-> Dec(1726015, 2)],
      [A |-> Dec(79, 0), B |-> Dec(304, 2), C |-> Dec(1203646, 2)],
      [A |-> Dec(75, 0), B |-> Dec(176, 2), C |-> Dec(508863, 2)],
      [A |-> Dec(74, 0), B |-> Dec(35, 1), C |-> Dec(315469, 2)],
      [A |-> Dec(74, 0), B |-> Dec(468, 2), C |-> Dec(80182, 2)],
      [A |-> Dec(70, 0), B |-> Dec(83, 2), C |-> Dec(943776, 2)],
      [A |-> Dec(62, 0), B |-> Dec(398, 2), C |-> Dec(882739, 2)],
      [A |-> Dec(61, 0), B |-> Dec(182, 2), C |-> Dec(70849, 1)],
      [A |-> Dec(57, 0), B |-> Dec(278, 2), C |-> Dec(62866, 1)],
      [A |-> Dec(56, 0), B |-> Dec(439, 2), C |-> Dec(141435, 1)],
      [A |-> Dec(56, 0), B |-> Dec(347, 2), C |-> Dec(627955, 2)],
      [A |-> Dec(52, 0), B |-> Dec(19, 2), C |-> Dec(1213955, 2)],
      [A |-> Dec(52, 0), B |-> Dec(133, 2), C |-> Dec(174802, 2)],
      [A |-> Dec(51, 0), B |-> Dec(28, 2), C |-> Dec(585648, 2)],
      [A |-> Dec(49, 0), B |-> Dec(49, 2), C |-> Dec(119445, 2)],
      [A |-> Dec(41, 0), B |-> Dec(537, 2), C |-> Dec(842924, 2)],
      [A |-> Dec(41, 0), B |-> Dec(24, 1), C |-> Dec(1965105, 2)],
      [A |-> Dec(39, 0), B |-> Dec(617, 2), C |-> Dec(1044739, 2)],
      [A |-> Dec(37, 0), B |-> Dec(604, 2), C |-> Dec(1021329, 2)],
      [A |-> Dec(37, 0), B |-> Dec(257, 2), C |-> Dec(105938, 2)],
      [A |-> Dec(36, 0), B |-> Dec(171, 2), C |-> Dec(235287, 2)],
      [A |-> Dec(36, 0), B |-> Dec(178, 2), C |-> Dec(681277, 2)],
      [A |-> Dec(33, 0), B |-> Dec(59, 2), C |-> Dec(1778985, 2)],
      [A |-> Dec(30, 0), B |-> Dec(44, 2), C |-> Dec(8399685, 2)],
      [A |-> Dec(30, 0), B |-> Dec(274, 2), C |-> Dec(134987, 2)],
      [A |-> Dec(25, 0), B |-> Dec(316, 2), C |-> Dec(469048, 2)]
    >>,
    <<
      [A |-> Dec2(6283, 31966747, 0), B |-> Dec(0, 0), C |-> Dec(0, 0)],
      [A |-> Dec(206059, 0), B |-> Dec(2678235, 6), C |-> Dec(628307585, 5)],
      [A |-> Dec(4303, 0), B |-> Dec(26351, 4), C |-> Dec(125661517, 4)],
      [A |-> Dec(425, 0), B |-> Dec(159, 2), C |-> Dec(3523, 3)],
      [A |-> Dec(119, 0), B |-> Dec(5796, 3), C |-> Dec(26298, 3)],
      [A |-> Dec(109, 0), B |-> Dec(2966, 3), C |-> Dec(1577344, 3)],
      [A |-> Dec(93, 0), B |-> Dec(259, 2), C |-> Dec(1884923, 2)],
      [A |-> Dec(72, 0), B |-> Dec(114, 2), C |-> Dec(52969, 2)],
      [A |-> Dec(68, 0), B |-> Dec(187, 2), C |-> Dec(39815, 2)],
      [A |-> Dec(67, 0), B |-> Dec(441, 2), C |-> Dec(550755, 2)],
      [A |-> Dec(59, 0), B |-> Dec(289, 2), C |-> Dec(522369, 2)],
      [A |-> Dec(56, 0), B |-> Dec(217, 2), C |-> Dec(15542, 2)],
      [A |-> Dec(45, 0), B |-> Dec(4, 1), C |-> Dec(7963, 1)],
      [A |-> Dec(36, 0), B |-> Dec(47, 2), C |-> Dec(77552, 2)],
      [A |-> Dec(29, 0), B |-> Dec(265, 2), C |-> Dec(711, 2)],
      [A |-> Dec(21, 0), B |-> Dec(534, 2), C |-> Dec(98, 2)],
      [A |-> Dec(19, 0), B |-> Dec(185, 2), C |-> Dec(548678, 2)],
      [A |-> Dec(19, 0), B |-> Dec(497, 2), C |-> Dec(2133, 1)],
      [A |-> Dec(17, 0), B |-> Dec(299, 2), C |-> Dec(627596, 2)],
      [A |-> Dec(16, 0), B |-> Dec(3, 2), C |-> Dec(254431, 2)],
      [A |-> Dec(16, 0), B |-> Dec(143, 2), C |-> Dec(214617, 2)],
      [A |-> Dec(15, 0), B |-> Dec(121, 2), C |-> Dec(1097708, 2)],
      [A |-> Dec(12, 0), B |-> Dec(283, 2), C |-> Dec(174802, 2)],
      [A |-> Dec(12, 0), B |-> Dec(326, 2), C |-> Dec(508863, 2)],
      [A |-> Dec(12, 0), B |-> Dec(527, 2), C |-> Dec(119445, 2)],
      [A |-> Dec(12, 0), B |-> Dec(208, 2), C |-> Dec(4694, 0)],
      [A |-> Dec(11, 0), B |-> Dec(77, 2), C |-> Dec(55357, 2)],
      [A |-> Dec(10, 0), B |-> Dec(13, 1), C |-> Dec(62866, 1)],
      [A |-> Dec(10, 0), B |-> Dec(424, 2), C |-> Dec(134987, 2)],
      [A |-> Dec(9, 0), B |-> Dec(27, 1), C |-> Dec(24273, 2)],
      [A |-> Dec(9, 0), B |-> Dec(564, 2), C |-> Dec(95172, 2)],
      [A |-> Dec(8, 0), B |-> Dec(53, 1), C |-> Dec(235287, 2)],
      [A |-> Dec(6, 0), B |-> Dec(265, 2), C |-> Dec(943776, 2)],
      [A |-> Dec(6, 0), B |-> Dec(467, 2), C |-> Dec(469048, 2)]
    >>,
    <<
      [A |-> Dec(52919, 0), B |-> Dec(0, 0), C |-> Dec(0, 0)],
      [A |-> Dec(8720, 0), B |-> Dec(10721, 4), C |-> Dec(62830758, 4)],
      [A |-> Dec(309, 0), B |-> Dec(867, 3), C |-> Dec(12566152, 3)],
      [A |-> Dec(27, 0), B |-> Dec(5, 2), C |-> Dec(352, 2)],
      [A |-> Dec(16, 0), B |-> Dec(519, 2), C |-> Dec(263, 1)],
      [A |-> Dec(16, 0), B |-> Dec(368, 2), C |-> Dec(15542, 2)],
      [A |-> Dec(10, 0), B |-> Dec(76, 2), C |-> Dec(1884923, 2)],
      [A |-> Dec(9, 0), B |-> Dec(206, 2), C |-> Dec(7771377, 2)],
      [A |-> Dec(7, 0), B |-> Dec(83, 2), C |-> Dec(77552, 2)],
      [A |-> Dec(5, 0), B |-> Dec(466, 2), C |-> Dec(157734, 2)],
      [A |-> Dec(4, 0), B |-> Dec(103, 2), C |-> Dec(711, 2)],
      [A |-> Dec(4, 0), B |-> Dec(344, 2), C |-> Dec(557314, 2)],
      [A |-> Dec(3, 0), B |-> Dec(514, 2), C |-> Dec(7963, 1)],
      [A |-> Dec(3, 0), B |-> Dec(605, 2), C |-> Dec(550755, 2)],
      [A |-> Dec(3, 0), B |-> Dec(119, 2), C |-> Dec(24273, 2)],
      [A |-> Dec(3, 0), B |-> Dec(612, 2), C |-> Dec(52969, 2)],
      [A |-> Dec(3, 0), B |-> Dec(31, 2), C |-> Dec(39815, 2)],
      [A |-> Dec(3, 0), B |-> Dec(228, 2), C |-> Dec(55357, 2)],
      [A |-> Dec(2, 0), B |-> Dec(438, 2), C |-> Dec(522369, 2)],
      [A |-> Dec(2, 0), B |-> Dec(375, 2), C |-> Dec(98, 2)]
    >>,
    <<
      [A |-> Dec(289, 0), B |-> Dec(5844, 3), C |-> Dec(6283076, 3)],
      [A |-> Dec(35, 0), B |-> Dec(0, 0), C |-> Dec(0, 0)],
      [A |-> Dec(17, 0), B |-> Dec(549, 2), C |-> Dec(1256615, 2)],
      [A |-> Dec(3, 0), B |-> Dec(52, 1), C |-> Dec(15542, 2)],
      [A |-> Dec(1, 0), B |-> Dec(472, 2), C |-> Dec(352, 2)],
      [A |-> Dec(1, 0), B |-> Dec(53, 1), C |-> Dec(1884923, 2)],
      [A |-> Dec(1, 0), B |-> Dec(597, 2), C |-> Dec(24273, 2)]
    >>,
    <<
      [A |-> Dec(114, 0), B |-> Dec(3142, 3), C |-> Dec(0, 0)],
      [A |-> Dec(8, 0), B |-> Dec(413, 2), C |-> Dec(628308, 2)],
      [A |-> Dec(1, 0), B |-> Dec(384, 2), C |-> Dec(1256615, 2)]
    >>,
    <<
      [A |-> Dec(1, 0), B |-> Dec(314, 2), C |-> Dec(0, 0)]
    >>
  >>

B_TERMS ==
  <<
    <<
      [A |-> Dec(280, 0), B |-> Dec(3199, 3), C |-> Dec(84334662, 3)],
      [A |-> Dec(102, 0), B |-> Dec(5422, 3), C |-> Dec(5507553, 3)],
      [A |-> Dec(80, 0), B |-> Dec(388, 2), C |-> Dec(522369, 2)],
      [A |-> Dec(44, 0), B |-> Dec(37, 1), C |-> Dec(235287, 2)],
      [A |-> Dec(32, 0), B |-> Dec(4, 0), C |-> Dec(157734, 2)]
    >>,
    <<
      [A |-> Dec(9, 0), B |-> Dec(39, 1), C |-> Dec(550755, 2)],
      [A |-> Dec(6, 0), B |-> Dec(173, 2), C |-> Dec(522369, 2)]
    >>
  >>

R_TERMS ==
  <<
    <<
      [A |-> Dec(100013989, 0), B |-> Dec(0, 0), C |-> Dec(0, 0)],
      [A |-> Dec(1670700, 0), B |-> Dec(30984635, 7), C |-> Dec(628307585, 5)],
      [A |-> Dec(13956, 0), B |-> Dec(305525, 5), C |-> Dec(125661517, 4)],
      [A |-> Dec(3084, 0), B |-> Dec(51985, 4), C |-> Dec(777137715, 4)],
      [A |-> Dec(1628, 0), B |-> Dec(11739, 4), C |-> Dec(57533849, 4)],
      [A |-> Dec(1576, 0), B |-> Dec(28469, 4), C |-> Dec(78604194, 4)],
      [A |-> Dec(925, 0), B |-> Dec(5453, 3), C |-> Dec(1150677, 2)],
      [A |-> Dec(542, 0), B |-> Dec(4564, 3), C |-> Dec(393021, 2)],
      [A |-> Dec(472, 0), B |-> Dec(3661, 3), C |-> Dec(5884927, 3)],
      [A |-> Dec(346, 0), B |-> Dec(964, 3), C |-> Dec(5507553, 3)],
      [A |-> Dec(329, 0), B |-> Dec(59, 1), C |-> Dec(5223694, 3)],
      [A |-> Dec(307, 0), B |-> Dec(299, 3), C |-> Dec(5573143, 3)],
      [A |-> Dec(243, 0), B |-> Dec(4273, 3), C |-> Dec(11790629, 3)],
      [A |-> Dec(212, 0), B |-> Dec(5847, 3), C |-> Dec(1577344, 3)],
      [A |-> Dec(186, 0), B |-> Dec(5022, 3), C |-> Dec(10977079, 3)],
      [A |-> Dec(175, 0), B |-> Dec(3012, 3), C |-> Dec(18849228, 3)],
      [A |-> Dec(110, 0), B |-> Dec(5055, 3), C |-> Dec(5486778, 3)],
      [A |-> Dec(98, 0), B |-> Dec(89, 2), C |-> Dec(606978, 2)],
      [A |-> Dec(86, 0), B |-> Dec(569, 2), C |-> Dec(1572084, 2)],
      [A |-> Dec(86, 0), B |-> Dec(127, 2), C |-> Dec(16100069, 2)],
      [A |-> Dec(65, 0), B |-> Dec(27, 2), C |-> Dec(1726015, 2)],
      [A |-> Dec(63, 0), B |-> Dec(92, 2), C |-> Dec(52969, 2)],
      [A |-> Dec(57, 0), B |-> Dec(201, 2), C |-> Dec(8399685, 2)],
      [A |-> Dec(56, 0), B |-> Dec(524, 2), C |-> Dec(714307, 1)],
      [A |-> Dec(49, 0), B |-> Dec(325, 2), C |-> Dec(254431, 2)],
      [A |-> Dec(47, 0), B |-> Dec(258, 2), C |-> Dec(77552, 2)],
      [A |-> Dec(45, 0), B |-> Dec(554, 2), C |-> Dec(943776, 2)],
      [A |-> Dec(43, 0), B |-> Dec(601, 2), C |-> Dec(627596, 2)],
      [A |-> Dec(39, 0), B |-> Dec(536, 2), C |-> Dec(4694, 0)],
      [A |-> Dec(38, 0), B |-> Dec(239, 2), C |-> Dec(882739, 2)],
      [A |-> Dec(37, 0), B |-> Dec(83, 2), C |-> Dec(1965105, 2)],
      [A |-> Dec(37, 0), B |-> Dec(49, 1), C |-> Dec(1213955, 2)],
      [A |-> Dec(36, 0), B |-> Dec(167, 2), C |-> Dec(1203646, 2)],
      [A |-> Dec(35, 0), B |-> Dec(184, 2), C |-> Dec(294246, 2)],
      [A |-> Dec(33, 0), B |-> Dec(24, 2), C |-> Dec(70849, 1)],
      [A |-> Dec(32, 0), B |-> Dec(18, 2), C |-> Dec(508863, 2)],
      [A |-> Dec(32, 0), B |-> Dec(178, 2), C |-> Dec(39815, 2)],
      [A |-> Dec(28, 0), B |-> Dec(121, 2), C |-> Dec(62866, 1)],
      [A |-> Dec(28, 0), B |-> Dec(19, 1), C |-> Dec(627955, 2)],
      [A |-> Dec(26, 0), B |-> Dec(459, 2), C |-> Dec(1044739, 2)]
    >>,
    <<
      [A |-> Dec(103019, 0), B |-> Dec(110749, 5), C |-> Dec(628307585, 5)],
      [A |-> Dec(1721, 0), B |-> Dec(10644, 4), C |-> Dec(125661517, 4)],
      [A |-> Dec(702, 0), B |-> Dec(3142, 3), C |-> Dec(0, 0)],
      [A |-> Dec(32, 0), B |-> Dec(102, 2), C |-> Dec(1884923, 2)],
      [A |-> Dec(31, 0), B |-> Dec(284, 2), C |-> Dec(550755, 2)],
      [A |-> Dec(25, 0), B |-> Dec(132, 2), C |-> Dec(522369, 2)],
      [A |-> Dec(18, 0), B |-> Dec(142, 2), C |-> Dec(157734, 2)],
      [A |-> Dec(10, 0), B |-> Dec(591, 2), C |-> Dec(1097708, 2)],
      [A |-> Dec(9, 0), B |-> Dec(142, 2), C |-> Dec(627596, 2)],
      [A |-> Dec(9, 0), B |-> Dec(27, 2), C |-> Dec(548678, 2)]
    >>,
    <<
      [A |-> Dec(4359, 0), B |-> Dec(57846, 4), C |-> Dec(62830758, 4)],
      [A |-> Dec(124, 0), B |-> Dec(5579, 3), C |-> Dec(12566152, 3)],
      [A |-> Dec(12, 0), B |-> Dec(314, 2), C |-> Dec(0, 0)],
      [A |-> Dec(9, 0), B |-> Dec(363, 2), C |-> Dec(7771377, 2)],
      [A |-> Dec(6, 0), B |-> Dec(187, 2), C |-> Dec(557314, 2)],
      [A |-> Dec(3, 0), B |-> Dec(547, 2), C |-> Dec(1884923, 2)]
    >>,
    <<
      [A |-> Dec(145, 0), B |-> Dec(4273, 3), C |-> Dec(6283076, 3)],
      [A |-> Dec(7, 0), B |-> Dec(392, 2), C |-> Dec(1256615, 2)]
    >>,
    <<
      [A |-> Dec(4, 0), B |-> Dec(256, 2), C |-> Dec(628308, 2)]
    >>
  >>

X_TERMS ==
  <<
    <<Dec(29785036, 5), Dec2(445, 26711148, 5), Dec(-19142, 7), DivInt(FromInt(1), 189474)>>,
    <<Dec(35752772, 5), Dec2(35, 99905034, 5), Dec(-1603, 7), DivInt(FromInt(-1), 300000)>>,
    <<Dec(13496298, 5), Dec2(4771, 98867398, 6), Dec(86972, 7), DivInt(FromInt(1), 56250)>>,
    <<Dec(9327191, 5), Dec2(4832, 2017538, 6), Dec(-36825, 7), DivInt(FromInt(1), 327270)>>,
    <<Dec(12504452, 5), Dec(-1934136261, 6), Dec(20708, 7), DivInt(FromInt(1), 450000)>>
  >>

Y_TERMS ==
  <<
    <<0, 0, 0, 0, 1>>,
    <<-2, 0, 0, 2, 2>>,
    <<0, 0, 0, 2, 2>>,
    <<0, 0, 0, 0, 2>>,
    <<0, 1, 0, 0, 0>>,
    <<0, 0, 1, 0, 0>>,
    <<-2, 1, 0, 2, 2>>,
    <<0, 0, 0, 2, 1>>,
    <<0, 0, 1, 2, 2>>,
    <<-2, -1, 0, 2, 2>>,
    <<-2, 0, 1, 0, 0>>,
    <<-2, 0, 0, 2, 1>>,
    <<0, 0, -1, 2, 2>>,
    <<2, 0, 0, 0, 0>>,
    <<0, 0, 1, 0, 1>>,
    <<2, 0, -1, 2, 2>>,
    <<0, 0, -1, 0, 1>>,
    <<0, 0, 1, 2, 1>>,
    <<-2, 0, 2, 0, 0>>,
    <<0, 0, -2, 2, 1>>,
    <<2, 0, 0, 2, 2>>,
    <<0, 0, 2, 2, 2>>,
    <<0, 0, 2, 0, 0>>,
    <<-2, 0, 1, 2, 2>>,
    <<0, 0, 0, 2, 0>>,
    <<-2, 0, 0, 2, 0>>,
    <<0, 0, -1, 2, 1>>,
    <<0, 2, 0, 0, 0>>,
    <<2, 0, -1, 0, 1>>,
    <<-2, 2, 0, 2, 2>>,
    <<0, 1, 0, 0, 1>>,
    <<-2, 0, 1, 0, 1>>,
    <<0, -1, 0, 0, 1>>,
    <<0, 0, 2, -2, 0>>,
    <<2, 0, -1, 2, 1>>,
    <<2, 0, 1, 2, 2>>,
    <<0, 1, 0, 2, 2>>,
    <<-2, 1, 1, 0, 0>>,
    <<0, -1, 0, 2, 2>>,
    <<2, 0, 0, 2, 1>>,
    <<2, 0, 1, 0, 0>>,
    <<-2, 0, 2, 2, 2>>,
    <<-2, 0, 1, 2, 1>>,
    <<2, 0, -2, 0, 1>>,
    <<2, 0, 0, 0, 1>>,
    <<0, -1, 1, 0, 0>>,
    <<-2, -1, 0, 2, 1>>,
    <<-2, 0, 0, 0, 1>>,
    <<0, 0, 2, 2, 1>>,
    <<-2, 0, 2, 0, 1>>,
    <<-2, 1, 0, 2, 1>>,
    <<0, 0, 1, -2, 0>>,
    <<-1, 0, 1, 0, 0>>,
    <<-2, 1, 0, 0, 0>>,
    <<1, 0, 0, 0, 0>>,
    <<0, 0, 1, 2, 0>>,
    <<0, 0, -2, 2, 2>>,
    <<-1, -1, 1, 0, 0>>,
    <<0, 1, 1, 0, 0>>,
    <<0, -1, 1, 2, 2>>,
    <<2, -1, -1, 2, 2>>,
    <<0, 0, 3, 2, 2>>,
    <<2, -1, 0, 2, 2>>
  >>

Dpsi_TERMS ==
  <<
    <<Dec(-171996, 0), Dec(-1742, 1)>>,
    <<Dec(-13187, 0), Dec(-16, 1)>>,
    <<Dec(-2274, 0), Dec(-2, 1)>>,
    <<Dec(2062, 0), Dec(2, 1)>>,
    <<Dec(1426, 0), Dec(-34, 1)>>,
    <<Dec(712, 0), Dec(1, 1)>>,
    <<Dec(-517, 0), Dec(12, 1)>>,
    <<Dec(-386, 0), Dec(-4, 1)>>,
    <<Dec(-301, 0), Dec(0, 0)>>,
    <<Dec(217, 0), Dec(-5, 1)>>,
    <<Dec(-158, 0), Dec(0, 0)>>,
    <<Dec(129, 0), Dec(1, 1)>>,
    <<Dec(123, 0), Dec(0, 0)>>,
    <<Dec(63, 0), Dec(0, 0)>>,
    <<Dec(63, 0), Dec(1, 1)>>,
    <<Dec(-59, 0), Dec(0, 0)>>,
    <<Dec(-58, 0), Dec(-1, 1)>>,
    <<Dec(-51, 0), Dec(0, 0)>>,
    <<Dec(48, 0), Dec(0, 0)>>,
    <<Dec(46, 0), Dec(0, 0)>>,
    <<Dec(-38, 0), Dec(0, 0)>>,
    <<Dec(-31, 0), Dec(0, 0)>>,
    <<Dec(29, 0), Dec(0, 0)>>,
    <<Dec(29, 0), Dec(0, 0)>>,
    <<Dec(26, 0), Dec(0, 0)>>,
    <<Dec(-22, 0), Dec(0, 0)>>,
    <<Dec(21, 0), Dec(0, 0)>>,
    <<Dec(17, 0), Dec(-1, 1)>>,
    <<Dec(16, 0), Dec(0, 0)>>,
    <<Dec(-16, 0), Dec(1, 1)>>,
    <<Dec(-15, 0), Dec(0, 0)>>,
    <<Dec(-13, 0), Dec(0, 0)>>,
    <<Dec(-12, 0), Dec(0, 0)>>,
    <<Dec(11, 0), Dec(0, 0)>>,
    <<Dec(-10, 0), Dec(0, 0)>>,
    <<Dec(-8, 0), Dec(0, 0)>>,
    <<Dec(7, 0), Dec(0, 0)>>,
    <<Dec(-7, 0), Dec(0, 0)>>,
    <<Dec(-7, 0), Dec(0, 0)>>,
    <<Dec(-7, 0), Dec(0, 0)>>,
    <<Dec(6, 0), Dec(0, 0)>>,
    <<Dec(6, 0), Dec(0, 0)>>,
    <<Dec(6, 0), Dec(0, 0)>>,
    <<Dec(-6, 0), Dec(0, 0)>>,
    <<Dec(-6, 0), Dec(0, 0)>>,
    <<Dec(5, 0), Dec(0, 0)>>,
    <<Dec(-5, 0), Dec(0, 0)>>,
    <<Dec(-5, 0), Dec(0, 0)>>,
    <<Dec(-5, 0), Dec(0, 0)>>,
    <<Dec(4, 0), Dec(0, 0)>>,
    <<Dec(4, 0), Dec(0, 0)>>,
    <<Dec(4, 0), Dec(0, 0)>>,
    <<Dec(-4, 0), Dec(0, 0)>>,
    <<Dec(-4, 0), Dec(0, 0)>>,
    <<Dec(-4, 0), Dec(0, 0)>>,
    <<Dec(3, 0), Dec(0, 0)>>,
    <<Dec(-3, 0), Dec(0, 0)>>,
    <<Dec(-3, 0), Dec(0, 0)>>,
    <<Dec(-3, 0), Dec(0, 0)>>,
    <<Dec(-3, 0), Dec(0, 0)>>,
    <<Dec(-3, 0), Dec(0, 0)>>,
    <<Dec(-3, 0), Dec(0, 0)>>,
    <<Dec(-3, 0), Dec(0, 0)>>
  >>

Deps_TERMS ==
  <<
    <<Dec(92025, 0), Dec(89, 1)>>,
    <<Dec(5736, 0), Dec(-31, 1)>>,
    <<Dec(977, 0), Dec(-5, 1)>>,
    <<Dec(-895, 0), Dec(5, 1)>>,
    <<Dec(54, 0), Dec(-1, 1)>>,
    <<Dec(-7, 0), Dec(0, 0)>>,
    <<Dec(224, 0), Dec(-6, 1)>>,
    <<Dec(200, 0), Dec(0, 0)>>,
    <<Dec(129, 0), Dec(-1, 1)>>,
    <<Dec(-95, 0), Dec(3, 1)>>,
    <<Dec(0, 0), Dec(0, 0)>>,
    <<Dec(-70, 0), Dec(0, 0)>>,
    <<Dec(-53, 0), Dec(0, 0)>>,
    <<Dec(0, 0), Dec(0, 0)>>,
    <<Dec(-33, 0), Dec(0, 0)>>,
    <<Dec(26, 0), Dec(0, 0)>>,
    <<Dec(32, 0), Dec(0, 0)>>,
    <<Dec(27, 0), Dec(0, 0)>>,
    <<Dec(0, 0), Dec(0, 0)>>,
    <<Dec(-24, 0), Dec(0, 0)>>,
    <<Dec(16, 0), Dec(0, 0)>>,
    <<Dec(13, 0), Dec(0, 0)>>,
    <<Dec(0, 0), Dec(0, 0)>>,
    <<Dec(-12, 0), Dec(0, 0)>>,
    <<Dec(0, 0), Dec(0, 0)>>,
    <<Dec(0, 0), Dec(0, 0)>>,
    <<Dec(-10, 0), Dec(0, 0)>>,
    <<Dec(0, 0), Dec(0, 0)>>,
    <<Dec(-8, 0), Dec(0, 0)>>,
    <<Dec(7, 0), Dec(0, 0)>>,
    <<Dec(9, 0), Dec(0, 0)>>,
    <<Dec(7, 0), Dec(0, 0)>>,
    <<Dec(6, 0), Dec(0, 0)>>,
    <<Dec(0, 0), Dec(0, 0)>>,
    <<Dec(5, 0), Dec(0, 0)>>,
    <<Dec(3, 0), Dec(0, 0)>>,
    <<Dec(-3, 0), Dec(0, 0)>>,
    <<Dec(0, 0), Dec(0, 0)>>,
    <<Dec(3, 0), Dec(0, 0)>>,
    <<Dec(3, 0), Dec(0, 0)>>,
    <<Dec(0, 0), Dec(0, 0)>>,
    <<Dec(-3, 0), Dec(0, 0)>>,
    <<Dec(-3, 0), Dec(0, 0)>>,
    <<Dec(3, 0), Dec(0, 0)>>,
    <<Dec(3, 0), Dec(0, 0)>>,
    <<Dec(0, 0), Dec(0, 0)>>,
    <<Dec(3, 0), Dec(0, 0)>>,
    <<Dec(3, 0), Dec(0, 0)>>,
    <<Dec(3, 0), Dec(0, 0)>>,
    <<Dec(0, 0), Dec(0, 0)>>,
    <<Dec(0, 0), Dec(0, 0)>>,
    <<Dec(0, 0), Dec(0, 0)>>,
    <<Dec(0, 0), Dec(0, 0)>>,
    <<Dec(0, 0), Dec(0, 0)>>,
    <<Dec(0, 0), Dec(0, 0)>>,
    <<Dec(0, 0), Dec(0, 0)>>,
    <<Dec(0, 0), Dec(0, 0)>>,
    <<Dec(0, 0), Dec(0, 0)>>,
    <<Dec(0, 0), Dec(0, 0)>>,
    <<Dec(0, 0), Dec(0, 0)>>,
    <<Dec(0, 0), Dec(0, 0)>>,
    <<Dec(0, 0), Dec(0, 0)>>,
    <<Dec(0, 0), Dec(0, 0)>>
  >>

e0_TERMS ==
  <<
    Dec(84381448, 3),
    Dec(-468093, 2),
    Dec(-155, 2),
    Dec(199925, 2),
    Dec(-5138, 2),
    Dec(-24967, 2),
    Dec(-3905, 2),
    Dec(712, 2),
    Dec(2787, 2),
    Dec(579, 2),
    Dec(245, 2)
  >>

\* The module-level tables of spa.ts.
\* The tables with the last row of Y_TERMS lost.
TermTables_RowLost ==
    [L_TERMS |-> L_TERMS, B_TERMS |-> B_TERMS, R_TERMS |-> R_TERMS,
     X_TERMS |-> X_TERMS, Y_TERMS |-> SubSeq(Y_TERMS, 1, Len(Y_TERMS) - 1),
     Dpsi_TERMS |-> Dpsi_TERMS, Deps_TERMS |-> Deps_TERMS, e0_TERMS |-> e0_TERMS]

\* The tables with a term in JCE^4 (zero) added to every row of X_TERMS.
TermTables_Quartic ==
    [L_TERMS |-> L_TERMS, B_TERMS |-> B_TERMS, R_TERMS |-> R_TERMS,
     X_TERMS |-> [k \in 1..Len(X_TERMS) |-> Append(X_TERMS[k], Zero)],
     Y_TERMS |-> Y_TERMS,
     Dpsi_TERMS |-> Dpsi_TERMS, Deps_TERMS |-> Deps_TERMS, e0_TERMS |-> e0_TERMS]

TermTables ==
    [L_TERMS |-> L_TERMS, B_TERMS |-> B_TERMS, R_TERMS |-> R_TERMS,
     X_TERMS |-> X_TERMS, Y_TERMS |-> Y_TERMS, Dpsi_TERMS |-> Dpsi_TERMS,
     Deps_TERMS |-> Deps_TERMS, e0_TERMS |-> e0_TERMS]

(***************************************************************************)
(* spa.ts: the helpers of calculate.                                       *)
(***************************************************************************)
\* rad2deg with the factor of deg2rad.
rad2deg_Swapped(radians) == Mul(DivInt(PI, 180), radians)

rad2deg(radians) == Mul(Div(FromInt(180), PI), radians)

deg2rad(degrees) == Mul(DivInt(PI, 180), degrees)

\* normalize with the raw remainder, which keeps the sign of the radians.
normalize_Raw(radians) ==
    LET Wrap(TwoPI) == BinMod(radians, TwoPI)
    IN  Wrap(BinMul(BinInt(2), BinPI))

\* The radians are a double.
normalize(radians) ==
    LET Wrap(TwoPI) == BinMod(BinAdd(BinMod(radians, TwoPI), TwoPI), TwoPI)
    IN  Wrap(BinMul(BinInt(2), BinPI))

RECURSIVE SumRange(_, _, _)
\* seq[lo] + ... + seq[hi].  The additions are exact, so the sum does not
\* depend on how they are grouped.
SumRange(seq, lo, hi) ==
    IF lo > hi THEN Zero
    ELSE IF lo = hi THEN seq[lo]
    ELSE LET mid == (lo + hi) \div 2
         IN  Add(SumRange(seq, lo, mid), SumRange(seq, mid + 1, hi))

\* reduce without an initial value throws a TypeError on an empty array.
ReduceThrows(seq) == Len(seq) = 0

\* seq.reduce((a, b) => a + b)
ReduceSum(seq) == LET terms == seq \o <<>> IN SumRange(terms, 1, Len(terms))

\* coefficients.map((a, i) => a * x ** i).reduce((a, b) => a + b)
polynomial(x, coefficients) ==
    ReduceSum([i \in 1..Len(coefficients) |-> Mul(coefficients[i], Pow(x, i - 1))])

\* for (const term of terms[n]) Ln += term.A * cos(term.B + term.C * JME)
GroupSum(group, JME) ==
    ReduceSum([k \in 1..Len(group) |->
                 Mul(group[k].A, Cos(Add(group[k].B, Mul(group[k].C, JME))))])

\* for (let n = 0; n < terms.length; n++) L += Ln * JME ** n
HelioSum(terms, JME) ==
    ReduceSum([n \in 1..Len(terms) |-> Mul(GroupSum(terms[n], JME), Pow(JME, n - 1))])

heliocentric(terms, JME) == DivInt(HelioSum(terms, JME), 100000000)

RECURSIVE Lengths(_, _)
\* The lengths of the first n rows, summed.
Lengths(rows, n) == IF n = 0 THEN 0 ELSE Len(rows[n]) + Lengths(rows, n - 1)

\* heliocentric with an outer loop that stops at the first power of JME
\* below 10^-12: `n < terms.length && JME ** n > 1e-12`.
heliocentricEvals_Adaptive(terms, JME) ==
    LET Groups == {n \in 1..Len(terms) :
                     \A k \in 1..n : Less(Dec(1, 12), Pow(JME, k - 1))}
    IN  Lengths(terms, Cardinality(Groups))

\* The passes through the body of the inner loop of heliocentric: one for
\* each term of each group, whatever JME is.
heliocentricEvals(terms, JME) == Lengths(terms, Len(terms))

\* for (let j = 0; j <= 4; j++) sum += xs[j] * ys[j]
XYSum(xs, ys) == ReduceSum([j \in 1..5 |-> MulInt(xs[j], ys[j])])

xyTerms(tb, JCE) ==
    LET Rows(xs) == [i \in 1..Len(tb.Y_TERMS) |-> deg2rad(XYSum(xs, tb.Y_TERMS[i]))]
    IN  Rows([k \in 1..Len(tb.X_TERMS) |-> polynomial(JCE, tb.X_TERMS[k])] \o <<>>)

\* nutation with the callback of Delta-psi pasted for Delta-epsilon: sin
\* for cos.
nutation_Pasted(tb, JCE) ==
    LET Term(r, v) == Mul(Add(r[1], Mul(r[2], JCE)), v)
        Sums(xy) ==
            [Dpsi |-> deg2rad(DivInt(ReduceSum(
                          [i \in 1..Len(tb.Dpsi_TERMS) |->
                              Term(tb.Dpsi_TERMS[i], Sin(xy[i]))]), 36000000)),
             Deps |-> deg2rad(DivInt(ReduceSum(
                          [i \in 1..Len(tb.Deps_TERMS) |->
                              Term(tb.Deps_TERMS[i], Sin(xy[i]))]), 36000000))]
    IN  Sums(xyTerms(tb, JCE) \o <<>>)

nutation(tb, JCE) ==
    LET Term(r, v) == Mul(Add(r[1], Mul(r[2], JCE)), v)
        Sums(xy) ==
            [Dpsi |-> deg2rad(DivInt(ReduceSum(
                          [i \in 1..Len(tb.Dpsi_TERMS) |->
                              Term(tb.Dpsi_TERMS[i], Sin(xy[i]))]), 36000000)),
             Deps |-> deg2rad(DivInt(ReduceSum(
                          [i \in 1..Len(tb.Deps_TERMS) |->
                              Term(tb.Deps_TERMS[i], Cos(xy[i]))]), 36000000))]
    IN  Sums(xyTerms(tb, JCE) \o <<>>)

\* The callbacks of map run by xyTerms and nutation: one for each
\* coefficient of X_TERMS, one for each row of Y_TERMS, of the table of
\* Delta-psi and of the table of Delta-epsilon, whatever JCE is.
nutationEvals(tb, JCE) ==
    Lengths(tb.X_TERMS, Len(tb.X_TERMS)) + Len(tb.Y_TERMS)
    + Len(tb.Dpsi_TERMS) + Len(tb.Deps_TERMS)

\* The callbacks of map run by polynomial.
polynomialEvals(x, coefficients) == Len(coefficients)

JULIAN_DAY_UNIX_EPOCH == BinLit(24405875, 1)
MSEC_PER_DAY == 1000 * 60 * 60 * 24

\* date.getTime(), a double: a Date is held as whole days since the Unix
\* epoch and the milliseconds into that day; the time of an invalid Date
\* (new Date(NaN)) is NaN.
InvalidDate == [time |-> "NaN"]

getTime(date) ==
    IF date = InvalidDate THEN BinMk(0, <<>>) ELSE
    LET Signed(s) ==
            BinMk(s, MMul(Carry([i \in 1..3 |->
                                   s * (date.day * IntLimbs(MSEC_PER_DAY)[i]
                                        + IntLimbs(date.ms)[i])]),
                          Unit))
    IN  Signed(IF date.day < 0 THEN -1 ELSE 1)

\* julianDate with the Julian Date of the noon after the Unix epoch.
julianDate_Noon(date) ==
    BinAdd(BinLit(24405880, 1), BinDiv(getTime(date), BinInt(MSEC_PER_DAY)))

\* The Julian Date, a double.
julianDate(date) ==
    BinAdd(JULIAN_DAY_UNIX_EPOCH, BinDiv(getTime(date), BinInt(MSEC_PER_DAY)))

(***************************************************************************)
(* spa.ts: calculate, step by step.  Each step maps the locals l computed  *)
(* so far (and the Params p, the Term Tables tb) to the locals after it,   *)
(* one constant of the code after the other.                               *)
(* Greek names are spelled out: Theta, beta, Dpsi, Deps, eps, Dtau,        *)
(* lambda, nu, alpha, delta, xi, Dalpha, alphaP, deltaP, HP, De, theta,    *)
(* Gamma, Phi; sigma, phi, DT and DUT1 in Params.                          *)
(***************************************************************************)
\* n counts the term evaluations of the call so far.
Step0(p) == [phi |-> deg2rad(p.phi), sigma |-> deg2rad(p.sigma), n |-> 0]

\* Step 3.1 with the Julian Date of UT1 = UTC + DUT1, as in the reference
\* algorithm.
Step3_1_UT1(tb, p, l) ==
    LET S1(m) == m @@ [JDE |-> Add(m.JD, DivInt(p.DT, 86400))]
        S2(m) == m @@ [JC |-> DivInt(Sub(m.JD, FromInt(2451545)), 36525)]
        S3(m) == m @@ [JCE |-> DivInt(Sub(m.JDE, FromInt(2451545)), 36525)]
        S4(m) == m @@ [JME |-> DivInt(m.JCE, 10)]
    IN  S4(S3(S2(S1(l @@ [JD |-> Add(BinToDec(julianDate(p.date)),
                                     DivInt(p.DUT1, 86400))]))))

Step3_1(tb, p, l) ==
    LET S1(m) == m @@ [JDE |-> Add(m.JD, DivInt(p.DT, 86400))]
        S2(m) == m @@ [JC |-> DivInt(Sub(m.JD, FromInt(2451545)), 36525)]
        S3(m) == m @@ [JCE |-> DivInt(Sub(m.JDE, FromInt(2451545)), 36525)]
        S4(m) == m @@ [JME |-> DivInt(m.JCE, 10)]
    IN  S4(S3(S2(S1(l @@ [JD |-> BinToDec(julianDate(p.date))]))))

\* Step 3.2 with the accumulator of heliocentric hoisted out of the function
\* (`let L = 0` at module level): the radius starts from the one before.
Step3_2_Hoisted(tb, p, l) ==
    LET Before(x) == IF Len(done) = 0 THEN x ELSE Add(x, done[Len(done)].result.R)
    IN  [l EXCEPT !.n = @ + heliocentricEvals(tb.L_TERMS, l.JME)
                          + heliocentricEvals(tb.B_TERMS, l.JME)
                          + heliocentricEvals(tb.R_TERMS, l.JME)]
          @@ [L |-> BinToDec(normalize(DecToBin(heliocentric(tb.L_TERMS, l.JME)))),
              B |-> heliocentric(tb.B_TERMS, l.JME),
              R |-> Before(heliocentric(tb.R_TERMS, l.JME))]

Step3_2(tb, p, l) ==
    [l EXCEPT !.n = @ + heliocentricEvals(tb.L_TERMS, l.JME)
                      + heliocentricEvals(tb.B_TERMS, l.JME)
                      + heliocentricEvals(tb.R_TERMS, l.JME)]
      @@ [L |-> BinToDec(normalize(DecToBin(heliocentric(tb.L_TERMS, l.JME)))),
          B |-> heliocentric(tb.B_TERMS, l.JME),
          R |-> heliocentric(tb.R_TERMS, l.JME)]

Step3_3(tb, p, l) == l @@ [Theta |-> Add(l.L, PI), beta |-> Neg(l.B)]

Step3_4(tb, p, l) ==
    [l EXCEPT !.n = @ + nutationEvals(tb, l.JCE)] @@ nutation(tb, l.JCE)

Step3_5(tb, p, l) ==
    LET S1(m) == m @@ [eps |-> Add(deg2rad(DivInt(m.eps0, 3600)), m.Deps)]
    IN  S1([l EXCEPT !.n = @ + polynomialEvals(DivInt(l.JME, 10), tb.e0_TERMS)]
             @@ [eps0 |-> polynomial(DivInt(l.JME, 10), tb.e0_TERMS)])

Step3_6(tb, p, l) ==
    l @@ [Dtau |-> deg2rad(Div(Dec(-204898, 4), MulInt(l.R, 3600)))]

Step3_7(tb, p, l) == l @@ [lambda |-> Add(Add(l.Theta, l.Dpsi), l.Dtau)]

Step3_8(tb, p, l) ==
    LET S1(m) == m @@ [nu |-> Add(m.nu0, Mul(m.Dpsi, Cos(m.eps)))]
    IN  S1(l @@ [nu0 |-> BinToDec(normalize(DecToBin(deg2rad(
                     Sub(Add(Add(Dec2(280, 46061837, 8),
                                 Mul(Dec2(360985, 64736629, 11),
                                     Sub(l.JD, FromInt(2451545)))),
                             Mul(Dec(387933, 9), Pow(l.JC, 2))),
                         DivInt(Pow(l.JC, 3), 38710000))))))])

Step3_9(tb, p, l) ==
    l @@ [alpha |-> BinToDec(normalize(DecToBin(
                       Atan2(Sub(Mul(Sin(l.lambda), Cos(l.eps)),
                                 Mul(Tan(l.beta), Sin(l.eps))),
                             Cos(l.lambda)))))]

Step3_10(tb, p, l) ==
    l @@ [delta |-> Asin(Add(Mul(Sin(l.beta), Cos(l.eps)),
                             Mul(Mul(Cos(l.beta), Sin(l.eps)), Sin(l.lambda))))]

Step3_11(tb, p, l) == l @@ [H |-> BinToDec(normalize(DecToBin(Sub(Add(l.nu, l.sigma), l.alpha))))]

Step3_12(tb, p, l) ==
    LET Den(m) == Sub(Cos(m.delta), Mul(Mul(m.x, Sin(m.xi)), Cos(m.H)))
        S1(m) == m @@ [x |-> Add(Cos(m.u), Mul(DivInt(p.E, 6378140), Cos(m.phi))),
                       y |-> Add(Mul(Dec(99664719, 8), Sin(m.u)),
                                 Mul(DivInt(p.E, 6378140), Sin(m.phi)))]
        S2(m) == m @@ [Dalpha |-> Atan2(Mul(Mul(Neg(m.x), Sin(m.xi)), Sin(m.H)), Den(m))]
        S3(m) == m @@ [alphaP |-> Add(m.alpha, m.Dalpha),
                       deltaP |-> Atan2(Mul(Sub(Sin(m.delta), Mul(m.y, Sin(m.xi))),
                                            Cos(m.Dalpha)),
                                        Den(m))]
    IN  S3(S2(S1(l @@ [xi |-> deg2rad(Div(Dec(8794, 3), MulInt(l.R, 3600))),
                       u |-> Atan(Mul(Dec(99664719, 8), Tan(l.phi)))])))

\* Step 3.13 with the parallax added, as to the right ascension.
Step3_13_Added(tb, p, l) == l @@ [HP |-> Add(l.H, l.Dalpha)]

Step3_13(tb, p, l) == l @@ [HP |-> Sub(l.H, l.Dalpha)]

\* Step 3.14 with the correction only for a sun above the horizon (e0 at
\* least -0.8333 degrees, the radius of the sun and the refraction), as in the
\* reference implementation.
Step3_14_Gated(tb, p, l) ==
    LET S1(m) ==
            m @@ [De |-> IF Less(m.e0, deg2rad(Dec(-8333, 4))) THEN Zero
                         ELSE deg2rad(
                     Div(Mul(Mul(DivInt(p.P, 1010), Div(FromInt(283), Add(FromInt(273), p.T))),
                             Dec(102, 2)),
                         MulInt(Tan(Add(m.e0, Div(deg2rad(deg2rad(Dec(103, 1))),
                                                  Add(m.e0, deg2rad(Dec(511, 2)))))),
                                60)))]
        S2(m) == m @@ [e |-> Add(m.e0, m.De)]
        S3(m) == m @@ [theta |-> Sub(DivInt(PI, 2), m.e)]
    IN  S3(S2(S1(l @@ [e0 |-> Asin(Add(Mul(Sin(l.phi), Sin(l.deltaP)),
                                       Mul(Mul(Cos(l.phi), Cos(l.deltaP)), Cos(l.HP))))])))

Step3_14(tb, p, l) ==
    LET S1(m) ==
            m @@ [De |-> deg2rad(
                     Div(Mul(Mul(DivInt(p.P, 1010), Div(FromInt(283), Add(FromInt(273), p.T))),
                             Dec(102, 2)),
                         MulInt(Tan(Add(m.e0, Div(deg2rad(deg2rad(Dec(103, 1))),
                                                  Add(m.e0, deg2rad(Dec(511, 2)))))),
                                60)))]
        S2(m) == m @@ [e |-> Add(m.e0, m.De)]
        S3(m) == m @@ [theta |-> Sub(DivInt(PI, 2), m.e)]
    IN  S3(S2(S1(l @@ [e0 |-> Asin(Add(Mul(Sin(l.phi), Sin(l.deltaP)),
                                       Mul(Mul(Cos(l.phi), Cos(l.deltaP)), Cos(l.HP))))])))

Step3_15(tb, p, l) ==
    LET S1(m) == m @@ [Phi |-> BinToDec(normalize(DecToBin(Add(m.Gamma, PI))))]
    IN  S1(l @@ [Gamma |-> Atan2(Sin(l.HP),
                                 Sub(Mul(Cos(l.HP), Sin(l.phi)),
                                     Mul(Tan(l.deltaP), Cos(l.phi))))])

\* Throws with a check of the date first (date.toISOString() throws a
\* RangeError for an invalid Date).
Throws_Validating(at, tb, p, l) ==
    IF at = "3.1" THEN p.date = InvalidDate
    ELSE IF at = "3.4"
    THEN \/ \E k \in 1..Len(tb.X_TERMS) : ReduceThrows(tb.X_TERMS[k])
         \/ ReduceThrows(tb.Dpsi_TERMS)
         \/ ReduceThrows(tb.Deps_TERMS)
    ELSE at = "3.5" /\ ReduceThrows(tb.e0_TERMS)

\* Whether the step at pc = at throws: map keeps the length of its array, so
\* the reduce of polynomial (3.4 through xyTerms, 3.5) and the two of
\* nutation (3.4) throw when their table is empty.  Arithmetic and the
\* functions of Math never throw.
Throws(at, tb, p, l) ==
    IF at = "3.4"
    THEN \/ \E k \in 1..Len(tb.X_TERMS) : ReduceThrows(tb.X_TERMS[k])
         \/ ReduceThrows(tb.Dpsi_TERMS)
         \/ ReduceThrows(tb.Deps_TERMS)
    ELSE at = "3.5" /\ ReduceThrows(tb.e0_TERMS)

\* The Result object returned by calculate.
Result(l) ==
    [JD |-> l.JD, L |-> rad2deg(l.L), B |-> rad2deg(l.B), R |-> l.R,
     Theta |-> rad2deg(l.Theta), beta |-> rad2deg(l.beta),
     Dpsi |-> rad2deg(l.Dpsi), Deps |-> rad2deg(l.Deps), eps |-> rad2deg(l.eps),
     lambda |-> rad2deg(l.lambda), alpha |-> rad2deg(l.alpha),
     delta |-> rad2deg(l.delta), H |-> rad2deg(l.H), alphaP |-> rad2deg(l.alphaP),
     deltaP |-> rad2deg(l.deltaP), HP |-> rad2deg(l.HP), theta |-> rad2deg(l.theta),
     Phi |-> rad2deg(l.Phi)]

\* calculate, run alone from its first step to its return.
calculate(tb, p) ==
    Result(Step3_15(tb, p, Step3_14(tb, p, Step3_13(tb, p, Step3_12(tb, p,
           Step3_11(tb, p, Step3_10(tb, p, Step3_9(tb, p, Step3_8(tb, p,
           Step3_7(tb, p, Step3_6(tb, p, Step3_5(tb, p, Step3_4(tb, p,
           Step3_3(tb, p, Step3_2(tb, p, Step3_1(tb, p, Step0(p)))))))))))))))))

(***************************************************************************)
(* Dates.  A Date is an instant: whole days since the Unix epoch and the   *)
(* milliseconds into that day.  Date.UTC / DateTime.utc(...).toJSDate()    *)
(* and getUTCFullYear / getUTCMonth follow the proleptic Gregorian         *)
(* calendar.                                                               *)
(***************************************************************************)
DaysFromCivil(y, m, d) ==
    LET yy == IF m <= 2 THEN y - 1 ELSE y
        era == yy \div 400
        yoe == yy - era * 400
        doy == (153 * (IF m > 2 THEN m - 3 ELSE m + 9) + 2) \div 5 + d - 1
        doe == yoe * 365 + yoe \div 4 - yoe \div 100 + doy
    IN  era * 146097 + doe - 719468

\* The Date of a UTC calendar instant; month is 1..12 as in DateTime.utc.
DateUTC(year, month, day, hour, minute, second) ==
    [day |-> DaysFromCivil(year, month, day),
     ms |-> ((hour * 60 + minute) * 60 + second) * 1000]

\* The year and the zero-based month of a Date, in UTC.
CivilFromDays(days) ==
    LET z == days + 719468
        era == z \div 146097
        doe == z - era * 146097
        yoe == (doe - doe \div 1460 + doe \div 36524 - doe \div 146096) \div 365
        doy == doe - (365 * yoe + yoe \div 4 - yoe \div 100)
        mp == (5 * doy + 2) \div 153
        m == IF mp < 10 THEN mp + 3 ELSE mp - 9
    IN  [year |-> yoe + era * 400 + (IF m <= 2 THEN 1 ELSE 0), month |-> m - 1]

getUTCFullYear(date) == CivilFromDays(date.day).year
getUTCMonth(date) == CivilFromDays(date.day).month

(***************************************************************************)
(* index.ts: the degree helper of Position.                                *)
(***************************************************************************)
\* The degree helper with the body of the radian helper of spa.ts.
normalizeDegrees_Radians(angle) ==
    LET Wrap(TwoPI) == BinMod(BinAdd(BinMod(angle, TwoPI), TwoPI), TwoPI)
    IN  Wrap(BinMul(BinInt(2), BinPI))

\* degrees(((angle.in(degrees).amount % 360) + 360) % 360); the amount is a double.
normalizeDegrees(angle) ==
    BinMod(BinAdd(BinMod(angle, BinInt(360)), BinInt(360)), BinInt(360))

(***************************************************************************)
(* deltatpoly.ts: the Delta-T estimator.                                   *)
(***************************************************************************)
\* The whole part of a number as an integer (ToInt32, for |x| < 2^31).
ToInt32(x) ==
    x.s * (x.m[FracLimbs + 1] + LimbBase * x.m[FracLimbs + 2]
           + LimbBase * LimbBase * x.m[FracLimbs + 3])

RECURSIVE XorNat(_, _)
XorNat(a, b) ==
    IF a = 0 THEN b
    ELSE IF b = 0 THEN a
    ELSE (((a % 2) + (b % 2)) % 2) + 2 * XorNat(a \div 2, b \div 2)

\* The ^ of JavaScript on 32-bit integers (two's complement: ~a = -a - 1).
BitXor(a, b) ==
    IF a >= 0 /\ b >= 0 THEN XorNat(a, b)
    ELSE IF a < 0 /\ b < 0 THEN XorNat(-a - 1, -b - 1)
    ELSE IF a < 0 THEN -XorNat(-a - 1, b) - 1
    ELSE -XorNat(a, -b - 1) - 1

\* The if chain of the estimator in the order of the code: `if (y < lt)
\* return polynomial((y - origin) / scale, c)`.  The branch of kind "xor"
\* returns (-20 + 32 * ((y - 1820) / 100)) ^ (2 - 0.5628 * (2150 - y)).
DeltaTBands ==
  <<
    [lt |-> -500, kind |-> "poly", origin |-> 1820, scale |-> 100,
     c |-> <<Dec(-20, 0), Dec(0, 0), Dec(32, 0)>>],
    [lt |-> 500, kind |-> "poly", origin |-> 0, scale |-> 100,
     c |-> <<Dec(105836, 1), Dec(-101441, 2), Dec(3378311, 5), Dec(-5952053, 6),
             Dec(-1798452, 7), Dec(22174192, 9), Dec(90316521, 10)>>],
    [lt |-> 1600, kind |-> "poly", origin |-> 1000, scale |-> 100,
     c |-> <<Dec(15742, 1), Dec(-55601, 2), Dec(7123472, 5), Dec(319781, 6),
             Dec(-8503463, 7), Dec(-5050998, 9), Dec(83572073, 10)>>],
    [lt |-> 1700, kind |-> "poly", origin |-> 1600, scale |-> 1,
     c |-> <<Dec(120, 0), Dec(-9808, 4), Dec(-1532, 5), DivInt(FromInt(1), 7129)>>],
    [lt |-> 1800, kind |-> "poly", origin |-> 1700, scale |-> 1,
     c |-> <<Dec(883, 2), Dec(1603, 4), Dec(-59285, 7), Dec(13336, 8),
             DivInt(FromInt(-1), 1174000)>>],
    [lt |-> 1860, kind |-> "poly", origin |-> 1800, scale |-> 1,
     c |-> <<Dec(1372, 2), Dec(-332447, 6), Dec(68612, 7), Dec(41116, 7),
             Dec(-37436, 8), Dec(121272, 10), Dec(-1699, 10), Dec(875, 12)>>],
    [lt |-> 1900, kind |-> "poly", origin |-> 1860, scale |-> 1,
     c |-> <<Dec(762, 2), Dec(5737, 4), Dec(-251754, 6), Dec(1680668, 8),
             Dec(-4473624, 10), DivInt(FromInt(1), 233174)>>],
    [lt |-> 1920, kind |-> "poly", origin |-> 1900, scale |-> 1,
     c |-> <<Dec(-279, 2), Dec(1494119, 6), Dec(-598939, 7), Dec(61966, 7),
             Dec(-197, 6)>>],
    [lt |-> 1941, kind |-> "poly", origin |-> 1920, scale |-> 1,
     c |-> <<Dec(212, 1), Dec(84493, 5), Dec(-761, 4), Dec(20936, 7)>>],
    [lt |-> 1961, kind |-> "poly", origin |-> 1950, scale |-> 1,
     c |-> <<Dec(2907, 2), Dec(407, 3), DivInt(FromInt(-1), 233), DivInt(FromInt(1), 2547)>>],
    [lt |-> 1986, kind |-> "poly", origin |-> 1975, scale |-> 1,
     c |-> <<Dec(4545, 2), Dec(1067, 3), DivInt(FromInt(-1), 260), DivInt(FromInt(-1), 718)>>],
    [lt |-> 2005, kind |-> "poly", origin |-> 2000, scale |-> 1,
     c |-> <<Dec(6386, 2), Dec(3345, 4), Dec(-60374, 6), Dec(17275, 7),
             Dec(651814, 9), Dec(2373599, 11)>>],
    [lt |-> 2050, kind |-> "poly", origin |-> 2000, scale |-> 1,
     c |-> <<Dec(6292, 2), Dec(32217, 5), Dec(5589, 6)>>],
    [lt |-> 2150, kind |-> "xor", origin |-> 1820, scale |-> 100,
     c |-> <<Dec(-20, 0), Dec(32, 0), Dec(2, 0), Dec(5628, 4)>>]
  >>

\* The tests of the chain with those for 1860 and 1900 in the other order.
Limit_Swapped(k) == DeltaTBands[IF k = 6 THEN 7 ELSE IF k = 7 THEN 6 ELSE k].lt

\* The bound of the k-th test of the chain: `if (y < bound)`.
Limit(k) == DeltaTBands[k].lt

\* The return after the chain: polynomial((y - 1820) / 100, [-20, 0, 32]).
DeltaTFallback ==
    [kind |-> "poly", origin |-> 1820, scale |-> 100,
     c |-> <<Dec(-20, 0), Dec(0, 0), Dec(32, 0)>>]

\* const y = date.getUTCFullYear() + (date.getUTCMonth() + 0.5) / 12
DecimalYear(date) ==
    Add(FromInt(getUTCFullYear(date)),
        DivInt(Add(FromInt(getUTCMonth(date)), Dec(5, 1)), 12))

\* The value returned by the branch b for the decimal year y.
BranchValue(b, y) ==
    LET Value(u) ==
            IF b.kind = "poly" THEN polynomial(u, b.c)
            ELSE FromInt(BitXor(ToInt32(Add(b.c[1], Mul(b.c[2], u))),
                                ToInt32(Sub(b.c[3], Mul(b.c[4], Sub(FromInt(2150), y))))))
    IN  Value(DivInt(Sub(y, FromInt(b.origin)), b.scale))

(***************************************************************************)
(* pressure.ts: the barometric formula.  Math.exp returns a binary          *)
(* floating-point number: zero, f * 2^e with 1 <= f < 2, or Infinity.       *)
(***************************************************************************)
FZero == [c |-> "zero", e |-> 0, f |-> Zero]
FInf == [c |-> "inf", e |-> 0, f |-> NaN]
FNaN == [c |-> "nan", e |-> 0, f |-> NaN]

\* a < b, both floating-point numbers that are not negative.
FLess(a, b) ==
    CASE a.c = "zero" -> b.c \in {"num", "inf"}
      [] a.c = "num" ->
            \/ b.c = "inf"
            \/ b.c = "num" /\ (a.e < b.e \/ (a.e = b.e /\ Less(a.f, b.f)))
      [] OTHER -> FALSE

RECURSIVE Scale(_, _)
\* f * 2^e, a number.
Scale(f, e) ==
    IF e = 0 THEN f
    ELSE IF e < 0 THEN Scale(DivInt(f, 2), e + 1)
    ELSE Scale(MulInt(f, 2), e - 1)

\* The floating-point number a as a number.
FToDec(a) ==
    CASE a.c = "zero" -> Zero
      [] a.c = "num" -> Scale(a.f, a.e)
      [] OTHER -> NaN

\* floor(x) as an integer, for |x| < 10^8.
Floor(x) ==
    LET w == x.m[FracLimbs + 1] + LimbBase * x.m[FracLimbs + 2]
        whole == \A i \in 1..FracLimbs : x.m[i] = 0
    IN  IF x.s < 0 THEN (IF whole THEN -w ELSE -w - 1) ELSE w

Ln2 == FromDigits(<<0, 6931, 4718, 559, 9453, 941, 7232, 1214, 5818>>)

RECURSIVE ExpSeries(_, _, _, _)
\* sum + term * (1 + r/n * (1 + r/(n+1) * ...)): the Taylor series of exp, to
\* the last place.
ExpSeries(r, term, n, sum) ==
    IF IsZero(term) THEN sum
    ELSE ExpSeries(r, DivInt(Mul(term, r), n), n + 1, Add(sum, term))

\* Math.exp: 2^k * exp(x - k * ln 2) with k = floor(x / ln 2); 0 below
\* -745.1332191019411 and Infinity above 709.782712893384, where a binary64
\* number underflows and overflows; exp(x) is 1 where 1 + x rounds to 1.
Exp(x) ==
    LET Norm(k, f) ==
            IF Less(f, One) THEN [c |-> "num", e |-> k - 1, f |-> MulInt(f, 2)]
            ELSE IF Less(f, FromInt(2)) THEN [c |-> "num", e |-> k, f |-> f]
            ELSE [c |-> "num", e |-> k + 1, f |-> DivInt(f, 2)]
        Parts(k) == Norm(k, ExpSeries(Sub(x, MulInt(Ln2, k)), One, 1, Zero))
    IN  IF IsNaN(x) THEN FNaN
        ELSE IF Less(x, Neg(Dec2(74513321, 91019411, 13))) THEN FZero
        ELSE IF Less(Dec2(70978271, 28933840, 13), x) THEN FInf
        ELSE Parts(Floor(Div(x, Ln2)))

\* A quantity of the unit atmospheres = pascals.times(101325).
atmospheres(amount) == [amount |-> amount, scale |-> 101325]

\* pressureAt with the sign of the exponent lost.
pressureAt_Rising(altitude) ==
    LET h == altitude
        g == Dec(980665, 5)
        M == Dec(2896968, 8)
        T0 == Dec(28816, 2)
        R0 == Dec2(83, 14462618, 9)
    IN  atmospheres(Exp(Div(Mul(Mul(g, h), M), Mul(T0, R0))))

\* pressureAt with the altitude of sea level, whatever the altitude.
pressureAt_SeaLevel(altitude) ==
    LET h == Zero
        g == Dec(980665, 5)
        M == Dec(2896968, 8)
        T0 == Dec(28816, 2)
        R0 == Dec2(83, 14462618, 9)
    IN  atmospheres(Exp(Div(Mul(Mul(Neg(g), h), M), Mul(T0, R0))))

\* pressureAt: the altitude is a number of meters.
pressureAt(altitude) ==
    LET h == altitude
        g == Dec(980665, 5)
        M == Dec(2896968, 8)
        T0 == Dec(28816, 2)
        R0 == Dec2(83, 14462618, 9)
    IN  atmospheres(Exp(Div(Mul(Mul(Neg(g), h), M), Mul(T0, R0))))

\* q.in(pascals).amount, a number.
InPascals(q) == MulInt(FToDec(q.amount), q.scale)

(***************************************************************************)
(* The convenience wrapper calculate(date, latitude, longitude, altitude?, *)
(* temperature?, pressure?) of the package.  The README and the tests call *)
(* it; its body is taken from the documentation: the arguments are a       *)
(* record that has a field for each argument supplied, the angles in       *)
(* degrees, the altitude in meters, the temperature in degrees Celsius and *)
(* the pressure in millibars.                                              *)
(***************************************************************************)
\* Delta-T(date) of deltatpoly.ts: the branch of the first test of the if
\* chain that holds, the return after the chain if none does.
DeltaT(date) ==
    LET First(taken) == CHOOSE k \in taken : \A j \in taken : k <= j
        Branch(y, taken) ==
            IF taken = {} THEN BranchValue(DeltaTFallback, y)
            ELSE BranchValue(DeltaTBands[First(taken)], y)
        Chain(y) == Branch(y, {k \in 1..Len(DeltaTBands) : Less(y, FromInt(Limit(k)))})
    IN  Chain(DecimalYear(date))

\* The argument, or the default where it is omitted.
Supplied(args, name, default) == IF name \in DOMAIN args THEN args[name] ELSE default

\* The Params the wrapper builds.
WrapperParams(args) ==
    LET Build(altitude, temperature, pressure) ==
            [date |-> args.date, DUT1 |-> Zero, DT |-> DeltaT(args.date),
             sigma |-> args.longitude, phi |-> args.latitude,
             E |-> altitude, P |-> pressure, T |-> temperature]
        Estimate(altitude) ==
            Build(altitude, Supplied(args, "temperature", FromInt(21)),
                  Supplied(args, "pressure", DivInt(InPascals(pressureAt(altitude)), 100)))
    IN  Estimate(Supplied(args, "altitude", Zero))

\* The horizon coordinates the wrapper returns.
WrapperPosition(result) ==
    [altitude |-> Sub(FromInt(90), result.theta), azimuth |-> result.Phi]

(***************************************************************************)
(* Inputs.                                                                 *)
(***************************************************************************)
MkParams(date, DT, sigma, phi, E, P, T) ==
    [date |-> date, DUT1 |-> Zero, DT |-> DT, sigma |-> sigma, phi |-> phi,
     E |-> E, P |-> P, T |-> T]

\* spa_test.ts: the example of the reference paper.
Gold ==
    MkParams(DateUTC(2003, 10, 17, 19, 30, 30), FromInt(67), Dec(-1051786, 4),
             Dec(39742476, 6), Dec(183014, 2), FromInt(820), FromInt(11))

\* Bern before dawn: the heliocentric longitude is past 180 degrees.
Bern ==
    MkParams(DateUTC(2020, 9, 2, 2, 31, 0), FromInt(69), Dec(745264, 5),
             Dec(4694806, 5), Zero, Dec(101325, 2), FromInt(21))

\* Minutes before the March equinox, on the equator in the early morning:
\* the geocentric right ascension is a hair below 360 degrees.
Equinox ==
    MkParams(DateUTC(2021, 3, 20, 9, 34, 30), FromInt(69), FromInt(-60),
             Zero, Zero, Dec(101325, 2), FromInt(21))

\* Bern at noon, Sydney, Tromso in the polar night and Greenwich at an equinox.
ParamSet ==
    {Gold, Bern, Equinox,
     MkParams(DateUTC(2021, 3, 29, 13, 21, 0), FromInt(69), Dec(745264, 5),
              Dec(4694806, 5), Zero, Dec(101325, 2), FromInt(21)),
     MkParams(DateUTC(2010, 6, 21, 2, 0, 0), FromInt(66), Dec(15121, 2),
              Dec(-3387, 2), FromInt(58), Dec(101325, 2), FromInt(15)),
     MkParams(DateUTC(2015, 12, 21, 12, 0, 0), FromInt(68), Dec(1896, 2),
              Dec(6965, 2), FromInt(10), Dec(101325, 2), FromInt(-5)),
     MkParams(DateUTC(2000, 3, 20, 12, 0, 0), FromInt(64), Zero,
              Zero, Zero, Dec(101325, 2), FromInt(21))}
HistoryParams == {Gold, Bern}

\* The example with DUT1 in its range, at its bound and outside it.
DUT1Params ==
    {Gold, [Gold EXCEPT !.DUT1 = Dec(-9, 1)], [Gold EXCEPT !.DUT1 = FromInt(5)]}

\* The example with a field that is not a number (NaN or an infinity), an
\* invalid Date, a temperature of absolute zero (the refraction divides by
\* 273 + T), and a date far outside 1900..2100.
InvalidParams ==
    {[Gold EXCEPT !.date = InvalidDate], [Gold EXCEPT !.DT = NaN],
     [Gold EXCEPT !.sigma = NaN], [Gold EXCEPT !.phi = NaN],
     [Gold EXCEPT !.E = NaN], [Gold EXCEPT !.P = NaN], [Gold EXCEPT !.T = NaN],
     [Gold EXCEPT !.T = FromInt(-273)], [Gold EXCEPT !.DUT1 = NaN],
     [Gold EXCEPT !.date = DateUTC(1400, 12, 31, 23, 59, 59)]}
MaxCalls == 3

\* spa_test.ts: the instants of the julianDay tests.
JulianTests ==
  <<
    [date |-> DateUTC(2000, 1, 1, 12, 0, 0), jd |-> BinLit(24515450, 1)],
    [date |-> DateUTC(1999, 1, 1, 0, 0, 0), jd |-> BinLit(24511795, 1)],
    [date |-> DateUTC(1987, 1, 27, 0, 0, 0), jd |-> BinLit(24468225, 1)],
    [date |-> DateUTC(1987, 6, 19, 12, 0, 0), jd |-> BinLit(24469660, 1)],
    [date |-> DateUTC(1988, 1, 27, 0, 0, 0), jd |-> BinLit(24471875, 1)],
    [date |-> DateUTC(1988, 6, 19, 12, 0, 0), jd |-> BinLit(24473320, 1)],
    [date |-> DateUTC(1900, 1, 1, 0, 0, 0), jd |-> BinLit(24150205, 1)],
    [date |-> DateUTC(1600, 1, 1, 0, 0, 0), jd |-> BinLit(23054475, 1)],
    [date |-> DateUTC(1600, 12, 31, 0, 0, 0), jd |-> BinLit(23058125, 1)]
  >>

JulianDates ==
    {JulianTests[i].date : i \in 1..Len(JulianTests)}
    \cup {DateUTC(y, m, d, h, 0, 0) :
            y \in {1600, 1900, 1970, 2000, 2003}, m \in {2, 7}, d \in {1, 28}, h \in {0, 18}}
    \cup {[day |-> d, ms |-> ms] :
            d \in {-1, 0, 1, 12342, 16382, 16383}, ms \in {1, 107676, 43200000, 86399999}}

NextDay(date) == [date EXCEPT !.day = @ + 1]

\* The years at which the estimator changes branch, and years far outside.
DeltaTYears ==
    {DeltaTBands[i].lt - k : i \in 1..Len(DeltaTBands), k \in {0, 1}}
    \cup {-270000, -1999, 100, 1000, 1650, 1955, 2020, 2100, 3000, 270000}

\* deltatpoly_test.ts: new Date(Date.UTC(year, month, 1)), month 0..11.
DeltaTDates == {DateUTC(y, m + 1, 1, 0, 0, 0) : y \in DeltaTYears, m \in {0, 11}}

\* Angles as doubles: tenths, whole turns and angles a hair off whole turns.
RadianAngles ==
    {BinLit(k * 7, 1) : k \in -20..20}
    \cup {BinMul(BinInt(k), BinMul(BinInt(2), BinPI)) : k \in -2..2}
    \cup {BinAdd(BinMul(BinInt(k), BinMul(BinInt(2), BinPI)), BinLit(s, 6)) :
             k \in -1..1, s \in {-1, 1}}
    \cup {BinLit(-99999, 1), BinLit(99999, 1)}

DegreeAngles ==
    {BinInt(k * 45) : k \in -20..20}
    \cup {BinLit(k * 3601, 1) : k \in -2..2}
    \cup {BinLit(k * 7, 1) : k \in -5..5}
    \cup {BinAdd(BinInt(k * 360), BinLit(s, 6)) : k \in -1..1, s \in {-1, 1}}
    \cup {BinLit(-99999, 1), BinLit(99999, 1)}

\* pressure_test.ts: -500, 0, 500 and 1000 m; the 540 m of the README; a
\* millimeter and 10^-13 m above sea level; 10^5, 6 * 10^6 and 10^7 m above
\* and 10^5 and 5 * 10^6 m below.
Altitudes ==
    {FromInt(-500), Zero, FromInt(500), FromInt(1000), FromInt(540), Dec(1, 3),
     Dec(1, 13), FromInt(100000), FromInt(6000000), FromInt(10000000),
     FromInt(-100000), FromInt(-5000000)}

\* The calls of the test of the wrapper (Bern, 2020-09-02T02:31Z and
\* 2021-03-29T13:21Z), and the first with an altitude of 0, 500 or 1000 m, a
\* temperature of 10 degrees Celsius and a pressure of 950 millibars.
WrapperArgs ==
    LET Test(d) == [date |-> d, latitude |-> Dec(4694806, 5), longitude |-> Dec(745264, 5)]
        With(S, name, V) == S \cup {(name :> v) @@ a : a \in S, v \in V}
    IN  With(With(With({Test(DateUTC(2020, 9, 2, 2, 31, 0))},
                       "altitude", {Zero, FromInt(500), FromInt(1000)}),
                  "temperature", {FromInt(10)}),
             "pressure", {FromInt(950)})
        \cup {Test(DateUTC(2021, 3, 29, 13, 21, 0))}

NoParams == [date |-> [day |-> 0, ms |-> 0]]
NoClient == [inputs |-> {}, calls |-> 0]
Off == [pc |-> "off"]

\* The module is loaded and `callers` callers may run calculate at the same
\* time, `calls` times in all, with any of the inputs.
InitCalculate(inputs, calls, callers) ==
    /\ tables = TermTables
    /\ client = [inputs |-> inputs, calls |-> calls]
    /\ pc = [c \in 1..callers |-> "idle"]
    /\ params = [c \in 1..callers |-> NoParams]
    /\ loc = [c \in 1..callers |-> << >>]
    /\ done = << >>
    /\ jd = Off
    /\ nm = Off
    /\ dt = Off
    /\ pr = Off
    /\ wr = Off

InitHelpers ==
    /\ tables = TermTables
    /\ client = NoClient
    /\ pc = <<"idle">>
    /\ params = <<NoParams>>
    /\ loc = << << >> >>
    /\ done = << >>

(***************************************************************************)
(* calculate: the call, one action for each step of the procedure, and     *)
(* the return.  The caller with the lowest number that is idle takes the   *)
(* next call; calls that run at the same time have different Params.       *)
(***************************************************************************)
Running == {c \in DOMAIN pc : pc[c] # "idle"}

Call(p) ==
    \E c \in DOMAIN pc :
        /\ pc[c] = "idle"
        /\ \A d \in 1..(c - 1) : pc[d] # "idle"
        /\ Len(done) + Cardinality(Running) < client.calls
        /\ p \in client.inputs
        /\ \A d \in Running : params[d] # p
        /\ params' = [params EXCEPT ![c] = p]
        /\ loc' = [loc EXCEPT ![c] = Step0(p)]
        /\ pc' = [pc EXCEPT ![c] = "3.1"]
        /\ UNCHANGED <<tables, client, done, jd, nm, dt, pr, wr>>

\* A step of calculate: it throws, or it computes its constants from the
\* Params, the constants before it and the Term Tables, and writes nothing
\* else.
Step(at, to, F(_, _, _)) ==
    \E c \in DOMAIN pc :
        /\ pc[c] = at
        /\ IF Throws(at, tables, params[c], loc[c])
           THEN /\ pc' = [pc EXCEPT ![c] = "throw"]
                /\ loc' = loc
           ELSE /\ pc' = [pc EXCEPT ![c] = to]
                /\ loc' = [loc EXCEPT ![c] = F(tables, params[c], loc[c])]
        /\ UNCHANGED <<tables, client, params, done, jd, nm, dt, pr, wr>>

JulianDay == Step("3.1", "3.2", Step3_1)
\* Step 3.2 with heliocentric reversing the groups of L_TERMS in place
\* (terms.reverse()).
EarthHeliocentric_Reversing ==
    \E c \in DOMAIN pc :
        /\ pc[c] = "3.2"
        /\ pc' = [pc EXCEPT ![c] = "3.3"]
        /\ loc' = [loc EXCEPT ![c] = Step3_2(tables, params[c], loc[c])]
        /\ tables' = [tables EXCEPT !.L_TERMS = Reverse(@)]
        /\ UNCHANGED <<client, params, done, jd, nm, dt, pr, wr>>

EarthHeliocentric == Step("3.2", "3.3", Step3_2)
Geocentric == Step("3.3", "3.4", Step3_3)
Nutation == Step("3.4", "3.5", Step3_4)
Obliquity == Step("3.5", "3.6", Step3_5)
Aberration == Step("3.6", "3.7", Step3_6)
ApparentLongitude == Step("3.7", "3.8", Step3_7)
SiderealTime == Step("3.8", "3.9", Step3_8)
RightAscension == Step("3.9", "3.10", Step3_9)
Declination == Step("3.10", "3.11", Step3_10)
HourAngle == Step("3.11", "3.12", Step3_11)
TopocentricRightAscension == Step("3.12", "3.13", Step3_12)
TopocentricHourAngle == Step("3.13", "3.14", Step3_13)
ZenithAngle == Step("3.14", "3.15", Step3_14)
AzimuthAngle == Step("3.15", "return", Step3_15)

Return ==
    \E c \in DOMAIN pc :
        /\ pc[c] = "return"
        /\ done' = Append(done, [params |-> params[c], result |-> Result(loc[c]),
                                 evals |-> loc[c].n])
        /\ pc' = [pc EXCEPT ![c] = "idle"]
        /\ params' = [params EXCEPT ![c] = NoParams]
        /\ loc' = [loc EXCEPT ![c] = << >>]
        /\ UNCHANGED <<tables, client, jd, nm, dt, pr, wr>>

Next ==
    \/ \E p \in client.inputs : Call(p)
    \/ JulianDay
    \/ EarthHeliocentric
    \/ Geocentric
    \/ Nutation
    \/ Obliquity
    \/ Aberration
    \/ ApparentLongitude
    \/ SiderealTime
    \/ RightAscension
    \/ Declination
    \/ HourAngle
    \/ TopocentricRightAscension
    \/ TopocentricHourAngle
    \/ ZenithAngle
    \/ AzimuthAngle
    \/ Return

\* One call of calculate with any of the inputs.
Init == InitCalculate(ParamSet, 1, 1)
Spec == Init /\ [][Next]_vars

\* The positions of a caller.
Labels ==
    {"idle", "3.1", "3.2", "3.3", "3.4", "3.5", "3.6", "3.7", "3.8", "3.9", "3.10",
     "3.11", "3.12", "3.13", "3.14", "3.15", "return", "throw"}

\* calculate is synchronous code on one thread: nothing suspends a call that
\* has started, its control moves on until it returns or throws.
RunToCompletion ==
    /\ \E c \in DOMAIN pc : pc[c] \notin {"idle", "throw"}
    /\ pc' \in [DOMAIN pc -> Labels]
    /\ pc' # pc

\* The same, with the scheduling of a call that runs to completion.
SpecLive == Init /\ [][Next]_vars /\ WF_pc(RunToCompletion)

\* A caller that calls calculate again and again.
InitHistory == InitCalculate(HistoryParams, MaxCalls, 1)
SpecHistory == InitHistory /\ [][Next]_vars

\* Two callers whose calls run at the same time, their steps interleaved.
InitConcurrent == InitCalculate(HistoryParams, 2, 2)
SpecConcurrent == InitConcurrent /\ [][Next]_vars

\* Two calls, one after the other, with Params that differ in DUT1 only.
InitDUT1 == InitCalculate(DUT1Params, 2, 1)
SpecDUT1 == InitDUT1 /\ [][Next]_vars

\* One call with Params that are not numbers, or not a date.
InitInvalid == InitCalculate(InvalidParams, 1, 1)
SpecInvalid == InitInvalid /\ [][Next]_vars

(***************************************************************************)
(* julianDate: a caller asks for the Julian Date of an instant, then of    *)
(* the instant one day later.                                              *)
(***************************************************************************)
InitJulian ==
    /\ InitHelpers
    /\ jd \in {[pc |-> "first", date |-> d] : d \in JulianDates}
    /\ nm = Off
    /\ dt = Off
    /\ pr = Off
    /\ wr = Off

JulianFirst ==
    /\ jd.pc = "first"
    /\ jd' = [pc |-> "second", date |-> jd.date, JD |-> julianDate(jd.date)]
    /\ UNCHANGED <<tables, client, pc, params, loc, done, nm, dt, pr, wr>>

JulianSecond ==
    /\ jd.pc = "second"
    /\ jd' = [pc |-> "done", date |-> jd.date, JD |-> jd.JD,
              JDNext |-> julianDate(NextDay(jd.date))]
    /\ UNCHANGED <<tables, client, pc, params, loc, done, nm, dt, pr, wr>>

NextJulian == JulianFirst \/ JulianSecond
SpecJulian == InitJulian /\ [][NextJulian]_vars

(***************************************************************************)
(* normalize: a caller normalizes an angle, then the angle one full turn   *)
(* further, with the radian helper of spa.ts or the degree helper of       *)
(* index.ts.                                                               *)
(***************************************************************************)
InitNormalize ==
    /\ InitHelpers
    /\ jd = Off
    /\ nm \in {[pc |-> "call", unit |-> "rad", x |-> a] : a \in RadianAngles}
              \cup {[pc |-> "call", unit |-> "deg", x |-> a] : a \in DegreeAngles}
    /\ dt = Off
    /\ pr = Off
    /\ wr = Off

NormalizeRadians ==
    /\ nm.pc = "call"
    /\ nm.unit = "rad"
    /\ nm' = [pc |-> "done", unit |-> "rad", x |-> nm.x, turn |-> BinMul(BinInt(2), BinPI),
              a |-> normalize(nm.x),
              b |-> normalize(BinAdd(nm.x, BinMul(BinInt(2), BinPI)))]
    /\ UNCHANGED <<tables, client, pc, params, loc, done, jd, dt, pr, wr>>

NormalizeDegrees ==
    /\ nm.pc = "call"
    /\ nm.unit = "deg"
    /\ nm' = [pc |-> "done", unit |-> "deg", x |-> nm.x, turn |-> BinInt(360),
              a |-> normalizeDegrees(nm.x),
              b |-> normalizeDegrees(BinAdd(nm.x, BinInt(360)))]
    /\ UNCHANGED <<tables, client, pc, params, loc, done, jd, dt, pr, wr>>

NextNormalize == NormalizeRadians \/ NormalizeDegrees
SpecNormalize == InitNormalize /\ [][NextNormalize]_vars

(***************************************************************************)
(* The Delta-T estimator: the decimal year, then the tests of the if       *)
(* chain one after the other, then the return after the chain.             *)
(***************************************************************************)
InitDeltaT ==
    /\ InitHelpers
    /\ jd = Off
    /\ nm = Off
    /\ dt \in {[pc |-> "call", date |-> d] : d \in DeltaTDates}
    /\ pr = Off
    /\ wr = Off

DeltaTEnter ==
    /\ dt.pc = "call"
    /\ dt' = [pc |-> "test", date |-> dt.date, y |-> DecimalYear(dt.date), k |-> 1]
    /\ UNCHANGED <<tables, client, pc, params, loc, done, jd, nm, pr, wr>>

DeltaTTest ==
    /\ dt.pc = "test"
    /\ dt.k <= Len(DeltaTBands)
    /\ dt' = IF Less(dt.y, FromInt(Limit(dt.k)))
             THEN [pc |-> "done", date |-> dt.date, y |-> dt.y, k |-> dt.k,
                   ret |-> BranchValue(DeltaTBands[dt.k], dt.y)]
             ELSE [dt EXCEPT !.k = @ + 1]
    /\ UNCHANGED <<tables, client, pc, params, loc, done, jd, nm, pr, wr>>

\* The last return under a test of the documented range: `if (y < 3000)`.
DeltaTLast_Tested ==
    /\ dt.pc = "test"
    /\ dt.k > Len(DeltaTBands)
    /\ dt' = [pc |-> "done", date |-> dt.date, y |-> dt.y, k |-> dt.k,
              ret |-> IF Less(dt.y, FromInt(3000)) THEN BranchValue(DeltaTFallback, dt.y)
                      ELSE NaN]
    /\ UNCHANGED <<tables, client, pc, params, loc, done, jd, nm, pr, wr>>

DeltaTLast ==
    /\ dt.pc = "test"
    /\ dt.k > Len(DeltaTBands)
    /\ dt' = [pc |-> "done", date |-> dt.date, y |-> dt.y, k |-> dt.k,
              ret |-> BranchValue(DeltaTFallback, dt.y)]
    /\ UNCHANGED <<tables, client, pc, params, loc, done, jd, nm, pr, wr>>

NextDeltaT == DeltaTEnter \/ DeltaTTest \/ DeltaTLast
SpecDeltaT == InitDeltaT /\ [][NextDeltaT]_vars

(***************************************************************************)
(* pressureAt: a caller asks for the pressure at one altitude after the    *)
(* other and keeps the answer before the last.                             *)
(***************************************************************************)
InitPressure ==
    /\ InitHelpers
    /\ jd = Off
    /\ nm = Off
    /\ dt = Off
    /\ pr = [pc |-> "idle", last |-> << >>]
    /\ wr = Off

PressureCall(h) ==
    /\ pr.pc = "idle"
    /\ h \in Altitudes
    /\ pr' = [pc |-> "called", last |-> pr.last, h |-> h]
    /\ UNCHANGED <<tables, client, pc, params, loc, done, jd, nm, dt, wr>>

PressureReturn ==
    /\ pr.pc = "called"
    /\ pr' = [pc |-> "returned", last |-> pr.last, h |-> pr.h, p |-> pressureAt(pr.h)]
    /\ UNCHANGED <<tables, client, pc, params, loc, done, jd, nm, dt, wr>>

PressureKeep ==
    /\ pr.pc = "returned"
    /\ pr' = [pc |-> "idle", last |-> <<[h |-> pr.h, p |-> pr.p]>>]
    /\ UNCHANGED <<tables, client, pc, params, loc, done, jd, nm, dt, wr>>

NextPressure == (\E h \in Altitudes : PressureCall(h)) \/ PressureReturn \/ PressureKeep
SpecPressure == InitPressure /\ [][NextPressure]_vars

(***************************************************************************)
(* The convenience wrapper: it builds the Params, calls calculate, which   *)
(* runs its steps, and returns the horizon coordinates.                    *)
(***************************************************************************)
InitWrapper ==
    /\ InitHelpers
    /\ jd = Off
    /\ nm = Off
    /\ dt = Off
    /\ pr = Off
    /\ wr \in {[pc |-> "call", args |-> a] : a \in WrapperArgs}

WrapperBuild ==
    /\ wr.pc = "call"
    /\ pc[1] = "idle"
    /\ wr' = [pc |-> "built", args |-> wr.args, params |-> WrapperParams(wr.args)]
    /\ params' = [params EXCEPT ![1] = wr'.params]
    /\ loc' = [loc EXCEPT ![1] = Step0(wr'.params)]
    /\ pc' = [pc EXCEPT ![1] = "3.1"]
    /\ UNCHANGED <<tables, client, done, jd, nm, dt, pr>>

WrapperReturn ==
    /\ wr.pc = "built"
    /\ pc[1] = "idle"
    /\ Len(done) = 1
    /\ wr' = [pc |-> "returned", args |-> wr.args, params |-> wr.params,
              position |-> WrapperPosition(done[1].result)]
    /\ UNCHANGED <<tables, client, pc, params, loc, done, jd, nm, dt, pr>>

NextWrapper ==
    \/ WrapperBuild
    \/ JulianDay
    \/ EarthHeliocentric
    \/ Geocentric
    \/ Nutation
    \/ Obliquity
    \/ Aberration
    \/ ApparentLongitude
    \/ SiderealTime
    \/ RightAscension
    \/ Declination
    \/ HourAngle
    \/ TopocentricRightAscension
    \/ TopocentricHourAngle
    \/ ZenithAngle
    \/ AzimuthAngle
    \/ Return
    \/ WrapperReturn
SpecWrapper == InitWrapper /\ [][NextWrapper]_vars

(***************************************************************************)
(* Properties.                                                             *)
(***************************************************************************)
\* |a - b| <= 10^-6, both numbers.
Close(a, b) == ~IsNaN(a) /\ ~IsNaN(b) /\ ~Less(Dec(1, 6), Abs(Sub(a, b)))

\* 0 <= x < 360.
InTurn(x) == x.s = 1 /\ Less(x, FromInt(360))

\* C1: calculate is history-free: any two completed calls with identical
\* Params have identical Results, field by field, whatever calls were made
\* before or in between.
C1_HistoryFree ==
    \A i, j \in 1..Len(done) :
        done[i].params = done[j].params => done[i].result = done[j].result

\* Two calls with the same Params and a call with other Params in between.
C1_Witness ==
    \E i, j, k \in 1..Len(done) :
        /\ i < k /\ k < j
        /\ done[i].params = done[j].params
        /\ done[k].params # done[i].params

\* spa_test.ts: the Result wanted for the example.
GoldWant ==
    [JD |-> Dec2(24529, 30312847, 6), L |-> Dec2(2401, 82616917, 10),
     B |-> Dec(-1011219, 10), R |-> Dec2(99, 65422974, 10),
     Theta |-> Dec2(20401, 82616917, 10), beta |-> Dec(1011219, 10),
     Dpsi |-> Dec(-39984, 7), Deps |-> Dec(166657, 8), eps |-> Dec(23440465, 6),
     lambda |-> Dec2(20400, 85519281, 10), alpha |-> Dec(202227408, 6),
     delta |-> Dec(-931434, 5), H |-> Dec(11105902, 6), alphaP |-> Dec(20222704, 5),
     deltaP |-> Dec(-9316179, 6), HP |-> Dec(1110627, 5), theta |-> Dec(50111622, 6),
     Phi |-> Dec(19434024, 5)]

JulianNamed ==
    jd.pc \in {"second", "done"} =>
        \A i \in 1..Len(JulianTests) :
            jd.date = JulianTests[i].date => jd.JD = JulianTests[i].jd

\* C3 as stated: the named instants have the listed Julian Dates, and the
\* instant exactly one day later always has a Julian Date exactly 1 larger.
C3_ExactlyOneLarger ==
    /\ JulianNamed
    /\ jd.pc = "done" => jd.JDNext = BinAdd(jd.JD, BinInt(1))

\* C3 amended: the named instants have exactly the listed Julian Dates, and
\* the instant one day later has a Julian Date that is 1 larger to within
\* 1e-6 day, the rounding of the division and of the sum.
C3_OneLargerRounded ==
    /\ JulianNamed
    /\ jd.pc = "done" => Close(Sub(BinToDec(jd.JDNext), BinToDec(jd.JD)), One)

\* An instant whose Julian Date a day later is not exactly 1 larger.
C3_Witness == jd.pc = "done" /\ jd.JDNext # BinAdd(jd.JD, BinInt(1))

\* C4: L, alpha, H and Phi of every Result lie in [0, 360), also when the
\* value before normalization is negative or exceeds a full turn.
C4_NormalizedInTurn ==
    \A i \in 1..Len(done) :
        /\ InTurn(done[i].result.L)
        /\ InTurn(done[i].result.alpha)
        /\ InTurn(done[i].result.H)
        /\ InTurn(done[i].result.Phi)

\* A Result whose right ascension is past 180 degrees: atan2 returned a
\* negative angle, which normalize turned by a full turn.
C4_Witness == \E i \in 1..Len(done) : Less(FromInt(180), done[i].result.alpha)

\* C5: the geocentric longitude Theta of every Result lies in [0, 360).
C5_ThetaInTurn == \A i \in 1..Len(done) : InTurn(done[i].result.Theta)

\* C6: the topocentric right ascension and the topocentric hour angle of
\* every Result lie in [0, 360).
C6_TopocentricInTurn ==
    \A i \in 1..Len(done) :
        InTurn(done[i].result.alphaP) /\ InTurn(done[i].result.HP)

\* The distance of the doubles a and b around a circle of one turn is at
\* most 10^-9.
NearOnCircle(a, b, turn) ==
    LET Near(d) == Less(d, Dec(1, 9)) \/ Less(Sub(BinToDec(turn), d), Dec(1, 9))
    IN  a.s # 0 /\ b.s # 0 /\ Near(Abs(Sub(BinToDec(a), BinToDec(b))))

\* C7 as stated: for every angle x, normalize(x + one full turn) equals
\* normalize(x), for the radian helper and for the degree helper.
C7_Periodic == nm.pc = "done" => nm.a = nm.b

\* C7 amended: for every angle x of at most 10^4 radians or degrees,
\* normalize(x + one full turn) and normalize(x) are the same angle up to
\* the rounding of the sum and of the remainders: they lie within 10^-9 of
\* each other around the circle.
C7_PeriodicRounded == nm.pc = "done" => NearOnCircle(nm.a, nm.b, nm.turn)

\* A negative angle for which the two results differ in the last bits.
C7_Witness == nm.pc = "done" /\ nm.x.s = -1 /\ nm.a # nm.b

\* The decimal year y lies in the k-th interval of the estimator: at or above
\* the bound of the test before it, below the bound of its own test.
InBand(k, y) ==
    /\ k = 1 \/ ~Less(y, FromInt(Limit(k - 1)))
    /\ k > Len(DeltaTBands) \/ Less(y, FromInt(Limit(k)))

\* C8: for every decimal year the estimator returns the value of the formula
\* of exactly one band: the year lies in the interval of the band selected and
\* in no other, the intervals below -500 and from 2150 on being unbounded.
C8_OneBand ==
    /\ dt.pc = "test" => dt.k \in 1..(Len(DeltaTBands) + 1)
    /\ dt.pc = "done" =>
        /\ ~IsNaN(dt.ret)
        /\ {k \in 1..(Len(DeltaTBands) + 1) : InBand(k, dt.y)} = {dt.k}

\* The estimator has returned for a year far after 2150, from the last band.
C8_Witness ==
    dt.pc = "done" /\ dt.k = Len(DeltaTBands) + 1 /\ Less(FromInt(100000), dt.y)

\* The bounds of the tests are strictly increasing, from -500 to 2150.
LimitsIncreasing ==
    /\ Limit(1) = -500
    /\ Limit(Len(DeltaTBands)) = 2150
    /\ \A k \in 1..(Len(DeltaTBands) - 1) : Limit(k) < Limit(k + 1)

\* C9 as stated: the estimator chooses among exactly twelve year intervals,
\* tested in strictly increasing order of their bounds.
C9_TwelveIntervals ==
    /\ Len(DeltaTBands) + 1 = 12
    /\ LimitsIncreasing
    /\ dt.pc \in {"test", "done"} => dt.k \in 1..12

\* C9 amended: the estimator chooses among exactly fifteen year intervals
\* (fourteen tests and the return after them), tested in strictly increasing
\* order of their bounds, from the interval before -500 to the one from 2150.
C9_FifteenIntervals ==
    /\ Len(DeltaTBands) + 1 = 15
    /\ LimitsIncreasing
    /\ dt.pc \in {"test", "done"} => dt.k \in 1..15

\* The estimator has returned from its fifteenth interval.
C9_Witness == dt.pc = "done" /\ dt.k = 15

\* deltatpoly.html, referred to by the comment of the estimator: between 2050
\* and 2150, -20 + 32 * ((y - 1820) / 100)^2 - 0.5628 * (2150 - y), which is
\* -205.724 + 56.28 * u + 32 * u^2 for u = (y - 1820) / 100.
DeltaTDocumented(k) ==
    IF k > Len(DeltaTBands) THEN DeltaTFallback
    ELSE IF DeltaTBands[k].kind = "poly" THEN DeltaTBands[k]
    ELSE [origin |-> 1820, scale |-> 100,
          c |-> <<Dec(-205724, 3), Dec(5628, 2), FromInt(32)>>]

\* C10: in every band the value returned is that of the polynomial with the
\* fixed coefficients of the band at the decimal year shifted by the origin of
\* the band and scaled.
C10_Polynomial ==
    dt.pc = "done" =>
        dt.ret = polynomial(DivInt(Sub(dt.y, FromInt(DeltaTDocumented(dt.k).origin)),
                                   DeltaTDocumented(dt.k).scale),
                            DeltaTDocumented(dt.k).c)

\* The 18 fields of Result.
ResultFields ==
    {"JD", "L", "B", "R", "Theta", "beta", "Dpsi", "Deps", "eps", "lambda",
     "alpha", "delta", "H", "alphaP", "deltaP", "HP", "theta", "Phi"}

\* C11: calculate raises no error: whatever the numbers and the date of the
\* Params (NaN, an infinity, an invalid Date, a zero divisor), no step throws
\* and the call returns a Result with all 18 fields.
C11_NoThrow ==
    /\ \A c \in DOMAIN pc : pc[c] # "throw"
    /\ \A i \in 1..Len(done) : DOMAIN done[i].result = ResultFields

\* The call with an invalid Date has returned, with NaN for the Julian Date.
C11_Witness ==
    \E i \in 1..Len(done) :
        done[i].params.date = InvalidDate /\ IsNaN(done[i].result.JD)

\* The Results of the inputs of the callers, each computed by a call that
\* runs alone.
Alone == [p \in HistoryParams |-> calculate(TermTables, p)]

\* C12: no step writes to a Term Table, and under any interleaving of the
\* steps of calls that run at the same time every call returns the Result
\* it returns when it runs alone.
C12_Isolated ==
    /\ tables = TermTables
    /\ \A i \in 1..Len(done) : done[i].result = Alone[done[i].params]

\* A call has returned while the call of the second caller, which began
\* before that return, is in the middle of its steps.
C12_Witness == Len(done) = 1 /\ DOMAIN pc = {1, 2} /\ pc[2] = "3.9"

\* C13: the heliocentric tables have 6, 2 and 5 groups, the multiplier
\* matrix has 63 rows of 5 integers, the tables of Delta-psi and
\* Delta-epsilon have 63 rows of 2 numbers, the mean obliquity has 11
\* coefficients.
C13_Shapes ==
    /\ Len(tables.L_TERMS) = 6
    /\ Len(tables.B_TERMS) = 2
    /\ Len(tables.R_TERMS) = 5
    /\ Len(tables.Y_TERMS) = 63
    /\ \A i \in 1..Len(tables.Y_TERMS) :
          Len(tables.Y_TERMS[i]) = 5 /\ \A j \in 1..5 : tables.Y_TERMS[i][j] \in Int
    /\ Len(tables.Dpsi_TERMS) = 63
    /\ \A i \in 1..Len(tables.Dpsi_TERMS) :
          Len(tables.Dpsi_TERMS[i]) = 2 /\ \A j \in 1..2 : ~IsNaN(tables.Dpsi_TERMS[i][j])
    /\ Len(tables.Deps_TERMS) = 63
    /\ \A i \in 1..Len(tables.Deps_TERMS) :
          Len(tables.Deps_TERMS[i]) = 2 /\ \A j \in 1..2 : ~IsNaN(tables.Deps_TERMS[i][j])
    /\ Len(tables.e0_TERMS) = 11

\* The nutation has been computed from the tables.
C13_Witness == \E c \in DOMAIN pc : pc[c] = "3.5" /\ ~IsNaN(loc[c].Dpsi)

\* C14 as stated: each of the five rows of the argument-polynomial table
\* supplies the coefficients of JCE^0 through JCE^4.
C14_Quartic ==
    /\ Len(tables.X_TERMS) = 5
    /\ \A k \in 1..Len(tables.X_TERMS) : Len(tables.X_TERMS[k]) = 5

\* C14 amended: each of the five rows of the argument-polynomial table
\* supplies the coefficients of JCE^0 through JCE^3, the last one not zero:
\* the five polynomials are of the 3rd degree.
C14_Cubic ==
    /\ Len(tables.X_TERMS) = 5
    /\ \A k \in 1..Len(tables.X_TERMS) :
          Len(tables.X_TERMS[k]) = 4 /\ ~IsZero(tables.X_TERMS[k][4])

\* The five polynomials have been evaluated, four terms each, with the 63
\* rows of the three nutation tables.
C14_Witness == \E c \in DOMAIN pc : pc[c] = "3.5" /\ loc[c].n >= 5 * 4 + 3 * 63

\* C17: the refraction correction De is applied on every call, whatever the
\* elevation e0: the zenith angle is PI / 2 - (e0 + De) with a De that is not
\* zero, never PI / 2 - e0.
C17_RefractionAlways ==
    \A c \in DOMAIN pc :
        pc[c] = "3.15" =>
            /\ ~IsNaN(loc[c].De) /\ ~IsZero(loc[c].De)
            /\ loc[c].theta = Sub(DivInt(PI, 2), Add(loc[c].e0, loc[c].De))
            /\ loc[c].theta # Sub(DivInt(PI, 2), loc[c].e0)

\* The zenith angle has been computed for a sun below the horizon.
C17_Witness ==
    \E c \in DOMAIN pc :
        pc[c] = "3.15" /\ Less(loc[c].e0, deg2rad(FromInt(-5)))

\* The argument of row i: the sum over j of Y_TERMS[i][j] times the
\* fundamental angle j, in radians.
NutationArgument(i, JCE) ==
    deg2rad(ReduceSum([j \in 1..5 |->
                          MulInt(polynomial(JCE, X_TERMS[j]), Y_TERMS[i][j])]))

\* The sums of the 63 rows.
NutationRows(JCE) ==
    LET Rows(xy) ==
            [Dpsi |-> ReduceSum([i \in 1..63 |->
                          Mul(Add(Dpsi_TERMS[i][1], Mul(Dpsi_TERMS[i][2], JCE)),
                              Sin(xy[i]))]),
             Deps |-> ReduceSum([i \in 1..63 |->
                          Mul(Add(Deps_TERMS[i][1], Mul(Deps_TERMS[i][2], JCE)),
                              Cos(xy[i]))])]
    IN  Rows([i \in 1..63 |-> NutationArgument(i, JCE)] \o <<>>)

\* C18: the nutation pairs the rows by index: with the argument of row i the
\* sum over j of Y_TERMS[i][j] times the fundamental angle j, Delta-psi sums
\* (a + b * JCE) * sin(argument i) over the 63 rows of its table and
\* Delta-epsilon sums (a + b * JCE) * cos(argument i) over the 63 rows of
\* its own, every row once and none outside a table.
C18_RowsPaired ==
    /\ Len(tables.Y_TERMS) = Len(tables.Dpsi_TERMS)
    /\ Len(tables.Y_TERMS) = Len(tables.Deps_TERMS)
    /\ \A c \in DOMAIN pc :
          pc[c] = "3.5" =>
              /\ loc[c].Dpsi = deg2rad(DivInt(NutationRows(loc[c].JCE).Dpsi, 36000000))
              /\ loc[c].Deps = deg2rad(DivInt(NutationRows(loc[c].JCE).Deps, 36000000))

\* The nutation has been computed, in longitude and in obliquity.
C18_Witness ==
    \E c \in DOMAIN pc :
        pc[c] = "3.5" /\ ~IsZero(loc[c].Dpsi) /\ ~IsZero(loc[c].Deps)

\* C19: every call of calculate terminates, and the number of terms it
\* evaluates is the same for every input: the 129 + 7 + 59 terms of the
\* heliocentric tables, the 5 * 4 coefficients of the arguments, the 3 * 63
\* nutation rows and the 11 coefficients of the mean obliquity.
C19_FixedCost ==
    /\ [](\A i \in 1..Len(done) : done[i].evals = 129 + 7 + 59 + 5 * 4 + 3 * 63 + 11)
    /\ \A c \in {1} : (pc[c] = "3.1") ~> (pc[c] = "idle")

\* A call has returned.
C19_Witness == Len(done) = 1 /\ \A c \in DOMAIN pc : pc[c] = "idle"

\* The Params p and q differ at most in DUT1.
SameButDUT1(p, q) == [p EXCEPT !.DUT1 = Zero] = [q EXCEPT !.DUT1 = Zero]

\* C20: the Result does not depend on DUT1: two calls whose Params differ
\* only in DUT1 return Results identical in every field.
C20_DUT1Ignored ==
    \A i, j \in 1..Len(done) :
        SameButDUT1(done[i].params, done[j].params) => done[i].result = done[j].result

\* Two calls whose Params differ in DUT1, and only there, have returned.
C20_Witness ==
    \E i, j \in 1..Len(done) :
        /\ done[i].params.DUT1 # done[j].params.DUT1
        /\ SameButDUT1(done[i].params, done[j].params)

\* pressure_test.ts: the altitudes in meters and the pressures in pascals.
PressureTests ==
    {<<FromInt(-500), Dec(10751401, 2)>>, <<Zero, FromInt(101325)>>,
     <<FromInt(500), Dec(9549226, 2)>>, <<FromInt(1000), Dec(8999528, 2)>>}

\* The pressure of the call is the barometric formula's: it is the pressure of
\* pressure_test.ts within 10^-2 Pa, and exactly 101325 Pa at 0 m.
BarometricFormula ==
    /\ \A t \in PressureTests :
          pr.h = t[1] => ~Less(Dec(1, 2), Abs(Sub(InPascals(pr.p), t[2])))
    /\ IsZero(pr.h) => InPascals(pr.p) = FromInt(101325)

\* The altitudes of the last call and of the one before are at least d apart
\* and both in lo..hi.
Apart(d, lo, hi) ==
    {i \in 1..Len(pr.last) :
        /\ ~Less(Abs(Sub(pr.h, pr.last[i].h)), d)
        /\ \A h \in {pr.h, pr.last[i].h} : ~Less(h, lo) /\ ~Less(hi, h)}

\* The higher of the two altitudes has the strictly lower pressure.
Decreasing(i) ==
    IF Less(pr.last[i].h, pr.h) THEN FLess(pr.p.amount, pr.last[i].p.amount)
    ELSE FLess(pr.last[i].p.amount, pr.p.amount)

\* C16 as claimed: pressureAt(h) is 101325 Pa * exp(-g M h / (T0 R0)), exactly
\* 101325 Pa at 0 m, strictly positive for every finite altitude, and
\* strictly lower for the higher of any two altitudes.
C16_DecreasingEverywhere ==
    pr.pc = "returned" =>
        /\ BarometricFormula
        /\ FLess(FZero, pr.p.amount)
        /\ \A i \in 1..Len(pr.last) : pr.last[i].h # pr.h => Decreasing(i)

\* C16: pressureAt(h) is 101325 Pa * exp(-g M h / (T0 R0)) in binary64:
\* exactly 101325 Pa at 0 m, strictly positive up to 6 * 10^6 m but 0 at
\* 10^7 m, where exp underflows, and strictly lower for the higher of two
\* altitudes between -5 * 10^6 m and 6 * 10^6 m that are at least a
\* millimeter apart.
C16_DecreasingInRange ==
    pr.pc = "returned" =>
        /\ BarometricFormula
        /\ ~Less(FromInt(6000000), pr.h) => FLess(FZero, pr.p.amount)
        /\ pr.h = FromInt(10000000) => pr.p.amount = FZero
        /\ \A i \in Apart(Dec(1, 3), FromInt(-5000000), FromInt(6000000)) : Decreasing(i)

\* The pressure at 6 * 10^6 m has been computed after the pressure at 1000 m.
C16_Witness ==
    /\ pr.pc = "returned"
    /\ pr.h = FromInt(6000000)
    /\ Len(pr.last) = 1
    /\ pr.last[1].h = FromInt(1000)

\* The test of pressure_test.ts at the altitude.
TestedPressure(altitude) ==
    CHOOSE t \in PressureTests : t[1] = altitude

C21_OppositeParallax ==
    /\ \A c \in DOMAIN pc :
          pc[c] = "3.14" =>
              /\ ~IsNaN(loc[c].Dalpha)
              /\ loc[c].alphaP = Add(loc[c].alpha, loc[c].Dalpha)
              /\ loc[c].HP = Sub(loc[c].H, loc[c].Dalpha)
    /\ \A i \in 1..Len(done) :
          /\ Close(Add(done[i].result.alphaP, done[i].result.HP),
                   Add(done[i].result.alpha, done[i].result.H))
          /\ Close(Sub(done[i].result.alphaP, done[i].result.alpha),
                   Sub(done[i].result.H, done[i].result.HP))

\* A call has returned a Result with a parallax in right ascension of more
\* than 10^-4 degrees.
C21_Witness ==
    \E i \in 1..Len(done) :
        Less(Dec(1, 4), Abs(Sub(done[i].result.alphaP, done[i].result.alpha)))
====
